---- MODULE Spec2Model ----
(***************************************************************************)
(* Model of the streaming TLV codec of codello.dev/asn1 (package tlv):      *)
(* the state stack (state.go), the limited buffered reader (reader.go),    *)
(* the Decoder (decode.go) and the Encoder (encode.go, the current         *)
(* definition starting at line 378).                                       *)
(*                                                                         *)
(* A handler is one action.  The underlying reader and writer are the      *)
(* environment: every call a handler makes to them has a set of possible   *)
(* outcomes (data, a transient error, end of input), so a handler is       *)
(* modelled by an operator that yields the set of its possible results.    *)
(* Errors are strings; "nil" is the nil error.                             *)
(***************************************************************************)
EXTENDS Integers, Sequences, FiniteSets, TLC

\* ------------------------------------------------------------------ bounds

\* Every byte sequence over Alphabet of at most MaxInput bytes is an input.
MaxInput == 3
\* Transient errors the underlying reader or writer injects in one run.
MaxErrs == 2
\* Encoder.Reset calls in one run.
MaxResets == 1
\* PeekHeader calls between two committed operations.
MaxPeeks == 2
\* Nesting depth of the constructed values the encoder is given.
MaxDepth == 2
\* Headers other than EndOfContents, and content bytes, are written while the
\* output has fewer bytes than this.
MaxOutput == 5

\* --------------------------------------------------------------- constants

LengthIndefinite == -1
TagEndOfContents == 0
\* math.MaxInt of a host whose int has 32 bits.
MaxInt == 2147483647
\* len(b.buf) of bufferedReader and bufferedWriter.
BufSize == 1024
\* len(Decoder.peekBuf)
PeekBufLen == 14
\* len(Encoder.peekBuf)
ScratchLen == 12
\* The size of the bufio.Reader of a ber Decoder.
DecoderBufSize == 512
\* asn1.MaxTag: the largest tag number (14 bits).
MaxTag == 16383

Max(a, b) == IF a >= b THEN a ELSE b
Min(a, b) == IF a <= b THEN a ELSE b

\* Faulty variant of ULess: the comparison without the conversion to uint.
ULessSigned(a, b) == a < b

\* a < b for the Go conversion uint(a) < uint(b): a negative int is a large uint.
ULess(a, b) == IF (a < 0) = (b < 0) THEN a < b ELSE b < 0

\* a + b in Go's wrapping int arithmetic, for a, b >= 0.
AddWrap(a, b) == IF b > MaxInt - a THEN (a - MaxInt - 1) + (b - MaxInt - 1) ELSE a + b

\* bits.Len8
BitsLen(x) ==
  IF x = 0 THEN 0 ELSE IF x < 2 THEN 1 ELSE IF x < 4 THEN 2 ELSE IF x < 8 THEN 3
  ELSE IF x < 16 THEN 4 ELSE IF x < 32 THEN 5 ELSE IF x < 64 THEN 6
  ELSE IF x < 128 THEN 7 ELSE 8

\* Faulty variant of noEOF: io.EOF is passed on.
NoEOFKeep(err) == err

\* noEOF
NoEOF(err) == IF err = "EOF" THEN "UnexpectedEOF" ELSE err

\* ------------------------------------------------------------ tlv.go, state.go

Hdr(t, c, l) == [Tag |-> t, Constructed |-> c, Length |-> l]

EndOfContents == Hdr(TagEndOfContents, FALSE, 0)

\* Faulty variant of MinLength: the length of the header alone, not limited
\* by the enclosing data value.
MinLengthChild(l1, l2) == l1

MinLength(l1, l2) == Max(IF ULess(l1, l2) THEN l1 ELSE l2, LengthIndefinite)

Entry(h, start, off, len) == [Header |-> h, Start |-> start, Offset |-> off, Length |-> len]

Remaining(en) == Max(en.Length - en.Offset, LengthIndefinite)

\* state.reset: the virtual root data value.
RootEntry == Entry(Hdr(0, TRUE, LengthIndefinite), 0, 0, LengthIndefinite)

root(s) == Len(s.stack) = 0

\* Faulty variant of push: the header bytes are not added to the input offset.
pushNoOffset(s, h, size) ==
  LET parent == [s.curr EXCEPT !.Offset = @ + size] IN
  [s EXCEPT !.stack = Append(s.stack, parent),
            !.curr = Entry(h, s.offset, 0, MinLength(h.Length, Remaining(parent)))]

\* Faulty variant of push: the length of the header becomes the effective
\* length whatever remains of the parent.
pushHeaderLength(s, h, size) ==
  LET parent == [s.curr EXCEPT !.Offset = @ + size] IN
  [s EXCEPT !.stack = Append(s.stack, parent),
            !.curr = Entry(h, s.offset, 0, h.Length),
            !.offset = @ + size]

\* state.push on a record with the fields stack, curr, offset.
push(s, h, size) ==
  LET parent == [s.curr EXCEPT !.Offset = @ + size] IN
  [s EXCEPT !.stack = Append(s.stack, parent),
            !.curr = Entry(h, s.offset, 0, MinLength(h.Length, Remaining(parent))),
            !.offset = @ + size]

\* Faulty variant of pop: the bytes that end the data value are not added to
\* the offset of the enclosing data value.
popNoSize(s, size) ==
  LET top == s.stack[Len(s.stack)] IN
  [s EXCEPT !.curr = [top EXCEPT !.Offset = @ + s.curr.Offset],
            !.stack = SubSeq(s.stack, 1, Len(s.stack) - 1),
            !.offset = @ + size]

\* Faulty variant of pop: the stack keeps its top entry.
popNoShrink(s, size) ==
  LET offset == s.curr.Offset + size
      top == s.stack[Len(s.stack)] IN
  [s EXCEPT !.curr = [top EXCEPT !.Offset = @ + offset],
            !.offset = @ + size]

\* state.pop
pop(s, size) ==
  LET offset == s.curr.Offset + size
      top == s.stack[Len(s.stack)] IN
  [s EXCEPT !.curr = [top EXCEPT !.Offset = @ + offset],
            !.stack = SubSeq(s.stack, 1, Len(s.stack) - 1),
            !.offset = @ + size]

StackDepth(s) == Len(s.stack)

StackIndex(s, i) == IF i = Len(s.stack) THEN s.curr.Header ELSE s.stack[i + 1].Header

DataValueOffset(s) == s.curr.Start

\* ------------------------------------------------------------------ input

\* Identifier and length bytes: 00, 02 (INTEGER, or a length of two),
\* 30 (constructed SEQUENCE), 80 (indefinite length), 82 (long form, two
\* length bytes).
Alphabet == {0, 2, 48, 128, 130}

\* The inputs named by the tests and the specification, and nestings longer
\* than MaxInput.
Examples ==
  { <<48, 3, 2, 2, 21, 21>>,
    <<48, 4, 2, 1, 21, 2, 0>>,
    <<48, 3, 48, 128, 2, 1, 21>>,
    <<48, 6, 48, 128, 2, 1, 21>>,
    <<48, 5, 48, 128, 2, 1, 21>>,
    <<48, 7, 48, 128, 2, 1, 21, 0, 0>>,
    <<48, 128, 48, 128, 2, 1, 21, 0, 0>>,
    <<48, 4, 48, 128, 0, 0>>,
    <<48, 5, 2, 130, 0, 1, 21>>,
    <<48, 3, 2, 1, 21, 2, 1, 3>>,
    <<48, 128, 2, 1, 21, 0, 0, 2, 0>>,
    <<48, 1, 2, 1>>,
    <<48, 2, 0, 1>>,
    <<48, 2, 2, 0>>,
    <<2, 130, 0, 1, 21>>,
    <<48, 6, 48, 128, 2, 1, 21, 2>>,
    <<31, 50, 0>>,
    <<63, 129, 0, 128, 0, 0>>,
    <<31, 128, 1, 0>>,
    <<2, 4, 21, 21, 21, 21, 2, 0, 2, 0>>,
    <<48, 5, 2, 2, 21, 21, 2, 0, 2, 0>>,
    <<48, 128, 48, 128, 2, 1, 21, 0, 0, 0, 0>>,
    <<48, 3, 2, 1>>,
    <<48, 4, 2, 2, 21>>,
    <<2, 130, 4, 0, 21, 21>> }

Tapes == UNION {[1..n -> Alphabet] : n \in 0..MaxInput} \cup Examples

VARIABLES
  tape,    \* the bytes the underlying reader delivers, then end of input
  d,       \* the Decoder
  env,     \* the underlying reader: bytes pulled, transient errors injected
  last,    \* the last decoder call and what it returned
  ref,     \* what an error-free ReadHeader would return at the last commit
  g,       \* history: peeks and errors since the last commit, open enclosures
  side,    \* "dec": the run drives a Decoder; "enc": it drives an Encoder
  enc,     \* the Encoder
  w,       \* the underlying writer: bytes accepted, transient errors injected
  elast,   \* the last encoder call and what it returned
  eg,      \* history: the state at the last commit, the pending header
  ber,     \* package ber: the chain of Readers, the input position, the StringReader
  blast    \* package ber: the last call and what it returned

\* The underlying reader's ReadByte: [e, b, err].
SrcReadByte(e) ==
  (IF e.pulled < Len(tape)
     THEN {[e |-> [e EXCEPT !.pulled = @ + 1], b |-> tape[e.pulled + 1], err |-> "nil"]}
     ELSE {[e |-> e, b |-> 0, err |-> "EOF"]})
  \cup
  (IF e.errs < MaxErrs
     THEN {[e |-> [e EXCEPT !.errs = @ + 1], b |-> 0, err |-> "transient"]}
     ELSE {})

\* The underlying reader's Read(p), len(p) = k >= 1: [e, data, err].  It
\* returns 1..k bytes, or no byte and an error.
SrcRead(e, k) ==
  {[e |-> [e EXCEPT !.pulled = @ + n],
    data |-> SubSeq(tape, e.pulled + 1, e.pulled + n),
    err |-> "nil"] : n \in 1..Min(k, Len(tape) - e.pulled)}
  \cup
  (IF e.pulled >= Len(tape) THEN {[e |-> e, data |-> <<>>, err |-> "EOF"]} ELSE {})
  \cup
  (IF e.errs < MaxErrs
     THEN {[e |-> [e EXCEPT !.errs = @ + 1], data |-> <<>>, err |-> "transient"]}
     ELSE {})

\* io.CopyN(io.Discard, rd, k) on the underlying reader: [e, n, err].
SrcDiscard(e, k) ==
  (IF Len(tape) - e.pulled >= k
     THEN {[e |-> [e EXCEPT !.pulled = @ + k], n |-> k, err |-> "nil"]}
     ELSE {[e |-> [e EXCEPT !.pulled = Len(tape)], n |-> Len(tape) - e.pulled, err |-> "EOF"]})
  \cup
  (IF e.errs < MaxErrs
     THEN {[e |-> [e EXCEPT !.pulled = @ + m, !.errs = @ + 1], n |-> m, err |-> "transient"]
            : m \in 0..Min(k - 1, Len(tape) - e.pulled)}
     ELSE {})

\* ------------------------------------------------------- bufferedReader

\* bufferedReader.ReadByte: [d, e, b, err].  e.cons counts the bytes handed
\* to the decoder.
BufReadByte(dd, e) ==
  IF Len(dd.bdata) > 0
    THEN {[d |-> [dd EXCEPT !.bdata = Tail(@)], e |-> [e EXCEPT !.cons = @ + 1],
           b |-> Head(dd.bdata), err |-> "nil"]}
  ELSE IF dd.berr # "nil"
    THEN {[d |-> [dd EXCEPT !.berr = "nil"], e |-> e, b |-> 0, err |-> dd.berr]}
  ELSE IF dd.lim = 0
    THEN \* io.ReadFull(b.rd, bs[:1])
         {[d |-> dd,
           e |-> IF r.err = "nil" THEN [r.e EXCEPT !.cons = @ + 1] ELSE r.e,
           b |-> IF r.err = "nil" THEN r.data[1] ELSE 0,
           err |-> r.err] : r \in SrcRead(e, 1)}
  ELSE \* fill(), then the loop again
       {IF r.err = "nil"
          THEN [d |-> [dd EXCEPT !.bdata = Tail(r.data),
                                 !.lim = Max(dd.lim - Len(r.data), LengthIndefinite)],
                e |-> [r.e EXCEPT !.cons = @ + 1], b |-> Head(r.data), err |-> "nil"]
          ELSE [d |-> dd, e |-> r.e, b |-> 0, err |-> r.err]
        : r \in SrcRead(e, MinLength(BufSize, dd.lim))}

\* bufferedReader.Read(p), len(p) = k >= 1: [d, e, data, err]
BufRead(dd, e, k) ==
  IF Len(dd.bdata) > 0
    THEN LET m == Min(k, Len(dd.bdata)) IN
         {[d |-> [dd EXCEPT !.bdata = SubSeq(@, m + 1, Len(@))],
           e |-> [e EXCEPT !.cons = @ + m], data |-> SubSeq(dd.bdata, 1, m), err |-> "nil"]}
  ELSE IF dd.berr # "nil"
    THEN {[d |-> [dd EXCEPT !.berr = "nil"], e |-> e, data |-> <<>>, err |-> dd.berr]}
  ELSE IF k >= BufSize \/ dd.lim = 0
    THEN \* read directly into p
         {[d |-> dd, e |-> [r.e EXCEPT !.cons = @ + Len(r.data)], data |-> r.data, err |-> r.err]
          : r \in SrcRead(e, k)}
  ELSE \* one read into the buffer, then copy
       {IF r.err # "nil"
          THEN [d |-> dd, e |-> r.e, data |-> <<>>, err |-> r.err]
          ELSE LET m == Min(k, Len(r.data)) IN
               [d |-> [dd EXCEPT !.bdata = SubSeq(r.data, m + 1, Len(r.data)),
                                 !.lim = Max(dd.lim - Len(r.data), LengthIndefinite)],
                e |-> [r.e EXCEPT !.cons = @ + m], data |-> SubSeq(r.data, 1, m), err |-> "nil"]
        : r \in SrcRead(e, MinLength(BufSize, dd.lim))}

\* The loop of bufferedReader.Discard(n): [d, e, n, err]
RECURSIVE BufDiscardLoop(_, _, _, _)
BufDiscardLoop(dd, e, n, discarded) ==
  IF discarded >= n
    THEN {[d |-> dd, e |-> e, n |-> discarded, err |-> "nil"]}
  ELSE IF Len(dd.bdata) > 0
    THEN LET skip == Min(n - discarded, Len(dd.bdata)) IN
         BufDiscardLoop([dd EXCEPT !.bdata = SubSeq(@, skip + 1, Len(@))],
                        [e EXCEPT !.cons = @ + skip], n, discarded + skip)
  ELSE IF dd.berr # "nil"
    THEN {[d |-> [dd EXCEPT !.berr = "nil"], e |-> e, n |-> discarded, err |-> dd.berr]}
  ELSE \* fill()
       UNION {BufDiscardLoop(
                IF r.err = "nil"
                  THEN [dd EXCEPT !.bdata = r.data,
                                  !.lim = Max(dd.lim - Len(r.data), LengthIndefinite)]
                  ELSE [dd EXCEPT !.berr = r.err],
                r.e, n, discarded)
              : r \in SrcRead(e, MinLength(BufSize, dd.lim))}

\* bufferedReader.Discard(n)
BufDiscard(dd, e, n) ==
  IF n = 0 THEN {[d |-> dd, e |-> e, n |-> 0, err |-> "nil"]}
  ELSE BufDiscardLoop([dd EXCEPT !.lim = Max(dd.lim, n)], e, n, 0)

\* bufferedReader.SetLimit
SetLimit(dd, n) == [dd EXCEPT !.lim = n]

\* --------------------------------------------- d.br: the decoder's reader

\* d.br.ReadByte(): the underlying reader itself when it is a byte reader
\* (mode "direct"), else the bufferedReader (mode "buffered").  Mode "ref"
\* replays the input from position e.cons without errors.
BrReadByte(dd, e) ==
  IF e.mode = "ref"
    THEN IF e.cons < Len(tape)
           THEN {[d |-> dd, e |-> [e EXCEPT !.cons = @ + 1], b |-> tape[e.cons + 1], err |-> "nil"]}
           ELSE {[d |-> dd, e |-> e, b |-> 0, err |-> "EOF"]}
  ELSE IF e.mode = "direct"
    THEN {[d |-> dd, e |-> IF r.err = "nil" THEN [r.e EXCEPT !.cons = @ + 1] ELSE r.e,
           b |-> r.b, err |-> r.err] : r \in SrcReadByte(e)}
  ELSE BufReadByte(dd, e)

\* d.br.Read(p), len(p) = k >= 1
BrRead(dd, e, k) ==
  IF e.mode = "direct"
    THEN {[d |-> dd, e |-> [r.e EXCEPT !.cons = @ + Len(r.data)], data |-> r.data, err |-> r.err]
          : r \in SrcRead(e, k)}
  ELSE BufRead(dd, e, k)

\* Discarding k >= 1 bytes from d.br (valueReader.Discard's switch)
BrDiscard(dd, e, k) ==
  IF e.mode = "direct"
    THEN {[d |-> dd, e |-> [r.e EXCEPT !.cons = @ + r.n], n |-> r.n, err |-> r.err]
          : r \in SrcDiscard(e, k)}
  ELSE BufDiscard(dd, e, k)

\* ------------------------------------------------------------- Decoder

\* NewDecoder / Decoder.Reset
NewDecoder ==
  [stack |-> <<>>, curr |-> RootEntry, offset |-> 0,
   valid |-> FALSE, valn |-> 0,
   peekBuf |-> [i \in 1..PeekBufLen |-> 0], peekAt |-> 0, peekLen |-> 0, peekBytes |-> 0,
   lim |-> 0, bdata |-> <<>>, berr |-> "nil"]

\* Decoder.readByte: [d, e, b, err]
readByte(dd, e) ==
  IF Remaining(dd.curr) = dd.peekBytes
    THEN {[d |-> dd, e |-> e, b |-> 0, err |-> "truncated"]}
  ELSE IF dd.peekAt < dd.peekLen
    THEN {[d |-> [dd EXCEPT !.peekAt = @ + 1], e |-> e,
           b |-> dd.peekBuf[dd.peekAt + 1], err |-> "nil"]}
  ELSE {IF r.err = "nil"
          THEN [d |-> [r.d EXCEPT !.peekBuf[dd.peekAt + 1] = r.b,
                                  !.peekLen = @ + 1,
                                  !.peekBytes = @ + 1,
                                  !.peekAt = @ + 1],
                e |-> r.e, b |-> r.b, err |-> "nil"]
          ELSE [d |-> r.d, e |-> r.e, b |-> 0,
                err |-> IF r.err = "EOF" THEN "EOF" ELSE "io"]
        : r \in BrReadByte(dd, e)}

\* The loop of vlq.read for a 16 bit result (asn1.Tag): [d, e, n, err]
RECURSIVE vlqLoop(_, _, _, _, _)
vlqLoop(dd, e, b, ret, numBits) ==
  IF b < 128
    THEN {[d |-> dd, e |-> e, n |-> ret, err |-> "nil"]}
    ELSE UNION {
      IF r.err # "nil"
        THEN {[d |-> r.d, e |-> r.e, n |-> ret, err |-> NoEOF(r.err)]}
        ELSE LET nb == IF numBits = 0 THEN BitsLen(r.b % 128) ELSE numBits + 7 IN
             IF nb > 16
               THEN {[d |-> r.d, e |-> r.e, n |-> 0, err |-> "vlqOverflow"]}
               ELSE vlqLoop(r.d, r.e, r.b, ((ret * 128) % 65536) + (r.b % 128), nb)
      : r \in readByte(dd, e)}

\* vlq.ReadMinimal[asn1.Tag](byteReaderFunc(d.readByte))
vlqReadMinimal(dd, e) ==
  UNION {
    IF r.err # "nil"
      THEN {[d |-> r.d, e |-> r.e, n |-> 0, err |-> r.err]}
    ELSE IF r.b = 128
      THEN {[d |-> r.d, e |-> r.e, n |-> 0, err |-> "notMinimal"]}
    ELSE vlqLoop(r.d, r.e, r.b, r.b % 128, BitsLen(r.b % 128))
    : r \in readByte(dd, e)}

\* The long-form length loop of decodeHeader: [d, e, h, err]
RECURSIVE lengthLoop(_, _, _, _)
lengthLoop(dd, e, h, numBytes) ==
  IF numBytes = 0
    THEN {[d |-> dd, e |-> e, h |-> h,
           err |-> IF h = EndOfContents THEN "invalidEOC" ELSE "nil"]}
    ELSE UNION {
      IF r.err # "nil"
        THEN {[d |-> r.d, e |-> r.e, h |-> h, err |-> NoEOF(r.err)]}
      ELSE IF h.Length > MaxInt \div 256
        THEN {[d |-> r.d, e |-> r.e, h |-> h, err |-> "lengthTooLarge"]}
      ELSE LET len == h.Length * 256 + r.b IN
           lengthLoop(IF len = 0 THEN [r.d EXCEPT !.peekAt = @ - 1, !.peekLen = @ - 1]
                                 ELSE r.d,
                      r.e, [h EXCEPT !.Length = len], numBytes - 1)
      : r \in readByte(dd, e)}

\* The length octets of decodeHeader (lines 345-376)
decodeLength(dd, e, h) ==
  UNION {
    IF r.err # "nil"
      THEN {[d |-> r.d, e |-> r.e, h |-> h, err |-> NoEOF(r.err)]}
    ELSE IF r.b < 128
      THEN {[d |-> r.d, e |-> r.e, h |-> [h EXCEPT !.Length = r.b], err |-> "nil"]}
    ELSE IF r.b = 128
      THEN {[d |-> r.d, e |-> r.e, h |-> [h EXCEPT !.Length = LengthIndefinite], err |-> "nil"]}
    ELSE lengthLoop(r.d, r.e, h, r.b % 128)
    : r \in readByte(dd, e)}

\* Decoder.decodeHeader: [d, e, h, err]
decodeHeader(dd, e) ==
  UNION {
    IF r.err # "nil"
      THEN {[d |-> r.d, e |-> r.e, h |-> EndOfContents, err |-> r.err]}
    ELSE
      LET class == (r.b \div 64) * 16384
          h == Hdr(class + (r.b % 32), (r.b \div 32) % 2 = 1, 0) IN
      IF r.b % 32 = 31
        THEN UNION {
          IF v.err # "nil"
            THEN {[d |-> v.d, e |-> v.e, h |-> h, err |-> NoEOF(v.err)]}
          ELSE IF v.n > MaxTag
            THEN {[d |-> v.d, e |-> v.e, h |-> [h EXCEPT !.Tag = class + (v.n % 16384)],
                   err |-> "tagTooLarge"]}
          ELSE decodeLength(v.d, v.e, [h EXCEPT !.Tag = class + (v.n % 16384)])
          : v \in vlqReadMinimal(r.d, r.e)}
        ELSE decodeLength(r.d, r.e, h)
    : r \in readByte(dd, e)}

\* Faulty variant of readHeader: the end of a definite-length data value is
\* not reported as an end-of-contents.
readHeaderNoEnd(dd, e) ==
  {IF r.err # "nil"
     THEN [r EXCEPT !.err = IF ~root(dd) THEN NoEOF(@) ELSE @]
   ELSE IF r.h = EndOfContents /\ ~root(dd) /\ dd.curr.Header.Length = LengthIndefinite
     THEN r
   ELSE [r EXCEPT !.err =
           IF r.h = EndOfContents THEN "unexpectedEOC"
           ELSE IF r.h.Tag = TagEndOfContents THEN "invalidEOC"
           ELSE IF ~r.h.Constructed /\ r.h.Length = LengthIndefinite THEN "indefPrimitive"
           ELSE IF /\ r.h.Length # LengthIndefinite
                   /\ ULess(Remaining(r.d.curr), AddWrap(r.d.peekBytes, r.h.Length))
                  THEN "exceedsParent"
           ELSE "nil"]
   : r \in decodeHeader(dd, e)}

\* Decoder.readHeader: [d, e, h, err]
readHeader(dd, e) ==
  IF dd.curr.Header.Length # LengthIndefinite /\ Remaining(dd.curr) = 0
    THEN {[d |-> dd, e |-> e, h |-> EndOfContents, err |-> "nil"]}
    ELSE {
      IF r.err # "nil"
        THEN [r EXCEPT !.err = IF ~root(dd) THEN NoEOF(@) ELSE @]
      ELSE IF r.h = EndOfContents /\ ~root(dd) /\ dd.curr.Header.Length = LengthIndefinite
        THEN r
      ELSE [r EXCEPT !.err =
              IF r.h = EndOfContents THEN "unexpectedEOC"
              ELSE IF r.h.Tag = TagEndOfContents THEN "invalidEOC"
              ELSE IF ~r.h.Constructed /\ r.h.Length = LengthIndefinite THEN "indefPrimitive"
              ELSE IF /\ r.h.Length # LengthIndefinite
                      /\ ULess(Remaining(r.d.curr), AddWrap(r.d.peekBytes, r.h.Length))
                     THEN "exceedsParent"
              ELSE "nil"]
      : r \in decodeHeader(dd, e)}

\* Faulty variant of InputOffset: the bytes of a partly read header count.
InputOffsetPeeked(dd) ==
  IF dd.valid THEN dd.offset + (dd.curr.Length - dd.valn) + dd.peekBytes
  ELSE dd.offset + dd.peekBytes

\* Decoder.InputOffset
InputOffset(dd) ==
  IF dd.valid THEN dd.offset + (dd.curr.Length - dd.valn) + dd.peekBytes ELSE dd.offset

\* Decoder.PeekHeader: [d, e, h, kind, err, off].  kind is "nil", "EOF",
\* "io" (*ioError), "syntax" (*SyntaxError with ByteOffset off) or "state"
\* (a plain error).
PeekHeader(dd, e) ==
  IF dd.valid
    THEN {[d |-> dd, e |-> e, h |-> EndOfContents, kind |-> "state",
           err |-> IF dd.curr.Header.Constructed THEN "invalidState" ELSE "notClosed",
           off |-> 0]}
    ELSE {
      IF r.err = "nil"
        THEN [d |-> r.d, e |-> r.e, h |-> r.h, kind |-> "nil", err |-> "nil", off |-> 0]
      ELSE IF r.err \in {"EOF", "io"}
        THEN [d |-> r.d, e |-> r.e, h |-> r.h, kind |-> r.err, err |-> r.err, off |-> 0]
      ELSE [d |-> r.d, e |-> r.e, h |-> r.h, kind |-> "syntax", err |-> r.err,
            off |-> r.d.offset + (IF r.err = "UnexpectedEOF" THEN r.d.peekBytes ELSE 0)]
      : r \in readHeader([dd EXCEPT !.peekAt = 0], e)}

\* Decoder.ReadHeader: [d, e, h, kind, err, off, val]; val tells whether a
\* value reader is returned.
ReadHeader(dd, e) ==
  {IF r.kind # "nil"
     THEN [d |-> r.d, e |-> r.e, h |-> r.h, kind |-> r.kind, err |-> r.err,
           off |-> r.off, val |-> FALSE]
     ELSE
       LET d1 == IF r.h.Tag = TagEndOfContents
                   THEN pop(r.d, r.d.peekBytes)
                   ELSE push(r.d, r.h, r.d.peekBytes)
           d2 == [d1 EXCEPT !.peekLen = 0, !.peekBytes = 0]
           d3 == IF StackDepth(d2) = 1 THEN SetLimit(d2, d2.curr.Length)
                 ELSE IF StackDepth(d2) = 0 THEN SetLimit(d2, 0)
                 ELSE d2
           noval == d3.curr.Header.Constructed \/ r.h.Tag = TagEndOfContents IN
       [d |-> IF noval THEN d3 ELSE [d3 EXCEPT !.valid = TRUE, !.valn = Remaining(d3.curr)],
        e |-> r.e, h |-> r.h, kind |-> "nil", err |-> "nil", off |-> 0, val |-> ~noval]
   : r \in PeekHeader(dd, e)}

\* Decoder.valueDone
valueDone(dd) ==
  LET d1 == pop([dd EXCEPT !.valid = FALSE], Remaining(dd.curr) + dd.peekBytes) IN
  [d1 EXCEPT !.peekBytes = 0, !.peekLen = 0]

\* valueReader.Read(p), len(p) = k >= 1: [d, e, n, err]
valueRead(dd, e, k) ==
  IF ~dd.valid THEN {[d |-> dd, e |-> e, n |-> 0, err |-> "closed"]}
  ELSE IF dd.valn = 0 THEN {[d |-> dd, e |-> e, n |-> 0, err |-> "EOF"]}
  ELSE {LET n == Len(r.data)
            m == dd.valn - n
            err == IF r.err \notin {"nil", "EOF"} THEN "io" ELSE r.err IN
        [d |-> [r.d EXCEPT !.valn = m], e |-> r.e, n |-> n,
         err |-> IF m = 0 THEN err ELSE NoEOF(err)]
        : r \in BrRead(dd, e, Min(k, dd.valn))}

\* valueReader.Discard(n), n >= 0: [d, e, n, err]
valueDiscard(dd, e, n) ==
  IF ~dd.valid THEN {[d |-> dd, e |-> e, n |-> 0, err |-> "closed"]}
  ELSE
    LET l == dd.valn
        discard == Min(n, l)
        rs == IF discard > 0 THEN BrDiscard(dd, e, discard)
              ELSE {[d |-> dd, e |-> e, n |-> 0, err |-> "nil"]} IN
    {LET e1 == IF n > l /\ r.err = "nil" THEN "EOF"
               ELSE IF n < l THEN NoEOF(r.err) ELSE r.err IN
     [d |-> [r.d EXCEPT !.valn = @ - r.n], e |-> r.e, n |-> r.n,
      err |-> IF e1 \notin {"nil", "EOF"} THEN "io" ELSE e1]
     : r \in rs}

\* Faulty variant of valueReader.Close: the unread bytes are discarded but
\* the data value is not popped.
valueCloseNoPop(dd, e) ==
  IF ~dd.valid THEN {[d |-> dd, e |-> e, err |-> "closed"]}
  ELSE {[d |-> r.d, e |-> r.e, err |-> r.err] : r \in valueDiscard(dd, e, dd.valn)}

\* valueReader.Close: [d, e, err]
valueClose(dd, e) ==
  IF ~dd.valid THEN {[d |-> dd, e |-> e, err |-> "closed"]}
  ELSE {IF r.err # "nil"
          THEN [d |-> r.d, e |-> r.e, err |-> r.err]
          ELSE [d |-> valueDone(r.d), e |-> r.e, err |-> "nil"]
        : r \in valueDiscard(dd, e, dd.valn)}

\* ------------------------------------------------- decoder: the state machine

\* What a caller can observe of the decoder between calls.
Obs(dd) ==
  [depth |-> StackDepth(dd),
   hdrs |-> [i \in 0..StackDepth(dd) |-> StackIndex(dd, i)],
   inOff |-> InputOffset(dd),
   dvo |-> DataValueOffset(dd),
   lim |-> dd.lim]

\* The result of a ReadHeader outcome as the caller sees it, with the
\* number of input bytes the decoder has consumed.
Result(r) ==
  [kind |-> r.kind, err |-> r.err, h |-> r.h, off |-> r.off, val |-> r.val,
   depth |-> StackDepth(r.d), inOff |-> InputOffset(r.d), cons |-> r.e.cons]

\* The result of a ReadHeader on decoder dd whose reader delivers the rest
\* of the input without errors.
RefOf(dd, e) ==
  Result(CHOOSE r \in ReadHeader(dd, [e EXCEPT !.mode = "ref"]) : TRUE)

\* The header encoded at input position pos, decoded by decodeHeader with no
\* enclosing data value, and the number of bytes it takes.
RawAt(pos) ==
  LET r == CHOOSE r \in decodeHeader(NewDecoder,
                          [pulled |-> pos, errs |-> 0, cons |-> pos, mode |-> "ref"]) : TRUE IN
  [h |-> r.h, err |-> r.err, size |-> r.d.peekBytes]

\* An enclosure the decoder has opened: where its header and its content
\* start in the input, its declared length, the bytes of its header, and the
\* sum of the encoded sizes of its children read so far.
NoEncl == [hstart |-> -1, cstart |-> -1, len |-> 0, hdr |-> 0, sum |-> 0, end |-> -1]

\* The end offset of the nearest definite-length enclosure, or -1.
RECURSIVE NearestEnd(_)
NearestEnd(encl) ==
  IF Len(encl) = 0 THEN -1
  ELSE IF encl[Len(encl)].len # LengthIndefinite
    THEN encl[Len(encl)].cstart + encl[Len(encl)].len
  ELSE NearestEnd(SubSeq(encl, 1, Len(encl) - 1))

\* Adds the encoded size n of a completed child to the innermost enclosure.
AddChild(encl, n) ==
  IF Len(encl) = 0 THEN encl ELSE [encl EXCEPT ![Len(encl)].sum = @ + n]

\* No SyntaxError has been returned since the last commit.
NoSyntaxError == [err |-> "nil", off |-> -1]

\* The first SyntaxError returned since the last commit, if any, else the
\* one of this result.
FirstSyntaxError(r) ==
  IF g.serr # NoSyntaxError THEN g.serr
  ELSE IF r.kind = "syntax" THEN [err |-> r.err, off |-> r.off]
  ELSE NoSyntaxError

\* The history after a ReadHeader with outcome r: hist holds the history g
\* and the reference result ref.
HistRead(hist, r) ==
  LET gg == hist.g
      ok == r.kind = "nil"
      n == r.e.cons - gg.mark
      top == IF Len(gg.encl) > 0 THEN gg.encl[Len(gg.encl)] ELSE NoEncl
      rest == SubSeq(gg.encl, 1, Len(gg.encl) - 1)
      encl == IF r.h.Tag = TagEndOfContents
                THEN AddChild(rest, top.hdr + top.sum + n)
              ELSE IF r.h.Constructed
                THEN Append(gg.encl, [hstart |-> gg.mark, cstart |-> r.e.cons,
                                      len |-> r.h.Length, hdr |-> n, sum |-> 0, end |-> -1])
              ELSE AddChild(gg.encl, n + r.h.Length) IN
  IF ok
    THEN [g |-> [peeks |-> 0, errs |-> 0, failed |-> FALSE, mark |-> r.e.cons,
                 encl |-> encl, serr |-> NoSyntaxError],
          ref |-> RefOf(r.d, r.e)]
    ELSE [g |-> [gg EXCEPT !.errs = @ + (IF r.kind = "io" THEN 1 ELSE 0),
                           !.failed = @ \/ r.kind # "io",
                           !.serr = IF @ # NoSyntaxError THEN @
                                    ELSE IF r.kind = "syntax" THEN [err |-> r.err, off |-> r.off]
                                    ELSE NoSyntaxError],
          ref |-> hist.ref]

\* The history after a call on the value reader with outcome c.
HistValue(hist, c) ==
  [g |-> [hist.g EXCEPT !.peeks = 0, !.errs = 0, !.failed = FALSE, !.mark = c.e.cons,
                        !.serr = NoSyntaxError],
   ref |-> RefOf(c.d, c.e)]

\* Decoder.discard: [d, e, err]
discard(dd, e) ==
  IF root(dd) THEN {[d |-> dd, e |-> e, err |-> "discardRoot"]}
  ELSE IF dd.curr.Length = LengthIndefinite
    THEN {[d |-> dd, e |-> e, err |-> "discardIndefinite"]}
  ELSE LET d1 == IF ~dd.valid
                   THEN [dd EXCEPT !.valid = TRUE, !.valn = Remaining(dd.curr) - dd.peekBytes]
                   ELSE dd IN
       {[c EXCEPT !.err = NoEOF(c.err)] : c \in valueClose(d1, e)}

\* Faulty variant of SkipLoop: the loop ends after the first header whatever
\* the stack depth.
SkipLoopOnce(dd, e, depth, hist) ==
  {[d |-> r.d, e |-> r.e, kind |-> r.kind, err |-> r.err, off |-> r.off,
    hist |-> HistRead(hist, r)] : r \in ReadHeader(dd, e)}

\* The loop of Decoder.Skip for a constructed data value at stack depth
\* depth: [d, e, kind, err, off, hist].  hist is the history of the calls
\* the loop has made.
RECURSIVE SkipLoop(_, _, _, _)
SkipLoop(dd, e, depth, hist) ==
  IF StackDepth(dd) < depth
    THEN {[d |-> dd, e |-> e, kind |-> "nil", err |-> "nil", off |-> 0, hist |-> hist]}
    ELSE UNION {
      IF r.kind # "nil"
        THEN {[d |-> r.d, e |-> r.e, kind |-> r.kind, err |-> r.err, off |-> r.off,
               hist |-> HistRead(hist, r)]}
      ELSE IF r.val
        THEN UNION {
          IF c.err # "nil"
            THEN {[d |-> c.d, e |-> c.e, kind |-> c.err, err |-> c.err, off |-> 0,
                   hist |-> HistValue(HistRead(hist, r), c)]}
            ELSE SkipLoop(c.d, c.e, depth, HistValue(HistRead(hist, r), c))
          : c \in valueClose(r.d, r.e)}
      ELSE SkipLoop(r.d, r.e, depth, HistRead(hist, r))
      : r \in ReadHeader(dd, e)}

\* Decoder.Skip: [d, e, kind, err, off, hist]
Skip(dd, e, hist) ==
  IF ~dd.curr.Header.Constructed
    THEN {[d |-> c.d, e |-> c.e, kind |-> c.err, err |-> c.err, off |-> 0,
           hist |-> HistValue(hist, c)] : c \in discard(dd, e)}
    ELSE SkipLoop(dd, e, StackDepth(dd), hist)

\* The record of a call: its result and what was observable before and
\* after it.
Call(op, kind, err, h, off, val, dd, e, errs, closed) ==
  [op |-> op, kind |-> kind, err |-> err, h |-> h, off |-> off, val |-> val,
   pre |-> Obs(d), post |-> Obs(dd), cons |-> e.cons, pulled |-> e.pulled - env.pulled,
   ref |-> ref, peeks |-> g.peeks, errs |-> errs, failed |-> g.failed,
   preValid |-> d.valid, preRem |-> Remaining(d.curr),
   preIndef |-> d.curr.Header.Length = LengthIndefinite,
   bound |-> NearestEnd(g.encl), raw |-> RawAt(g.mark), closed |-> closed,
   latched |-> g.serr,
   start |-> IF Len(g.encl) > 0 THEN g.encl[Len(g.encl)].hstart ELSE -1]

\* d.ReadHeader()
DoReadHeader ==
  /\ side = "dec"
  /\ UNCHANGED <<tape, side, enc, w, elast, eg, ber, blast>>
  /\ \E r \in ReadHeader(d, env) :
       LET ok == r.kind = "nil"
           n == r.e.cons - g.mark
           top == IF Len(g.encl) > 0 THEN g.encl[Len(g.encl)] ELSE NoEncl
           rest == SubSeq(g.encl, 1, Len(g.encl) - 1)
           closed == IF ok /\ r.h.Tag = TagEndOfContents
                       THEN [top EXCEPT !.end = r.e.cons] ELSE NoEncl
           encl == IF ~ok THEN g.encl
                   ELSE IF r.h.Tag = TagEndOfContents
                     THEN AddChild(rest, top.hdr + top.sum + n)
                   ELSE IF r.h.Constructed
                     THEN Append(g.encl, [hstart |-> g.mark, cstart |-> r.e.cons,
                                          len |-> r.h.Length, hdr |-> n, sum |-> 0, end |-> -1])
                   ELSE AddChild(g.encl, n + r.h.Length)
           errs == g.errs + (IF r.kind = "io" THEN 1 ELSE 0) IN
       /\ d' = r.d
       /\ env' = r.e
       /\ last' = Call("read", r.kind, r.err, r.h, r.off, r.val, r.d, r.e, errs, closed)
       /\ ref' = IF ok THEN RefOf(r.d, r.e) ELSE ref
       /\ g' = IF ok
                 THEN [peeks |-> 0, errs |-> 0, failed |-> FALSE, mark |-> r.e.cons,
                       encl |-> encl, serr |-> NoSyntaxError]
                 ELSE [g EXCEPT !.errs = errs, !.failed = @ \/ r.kind # "io",
                                !.serr = FirstSyntaxError(r)]

\* d.PeekHeader()
DoPeekHeader ==
  /\ side = "dec"
  /\ g.peeks < MaxPeeks
  /\ \E r \in PeekHeader(d, env) :
       LET errs == g.errs + (IF r.kind = "io" THEN 1 ELSE 0) IN
       /\ d' = r.d
       /\ env' = r.e
       /\ last' = Call("peek", r.kind, r.err, r.h, r.off, FALSE, r.d, r.e, errs, NoEncl)
       /\ g' = [g EXCEPT !.peeks = @ + 1, !.errs = errs, !.serr = FirstSyntaxError(r)]
       /\ UNCHANGED <<tape, ref, side, enc, w, elast, eg, ber, blast>>

\* The sizes of the buffers handed to Read: smaller than, and as large as,
\* the buffer of the bufferedReader.
ReadSizes == {1, 2, BufSize}

\* val.Read(p) on the value reader ReadHeader returned, len(p) in 1..2
DoValueRead ==
  /\ side = "dec"
  /\ d.valid
  /\ \E k \in ReadSizes : \E r \in valueRead(d, env, k) :
       /\ d' = r.d
       /\ env' = r.e
       /\ last' = Call("vread", r.err, r.err, EndOfContents, r.n, FALSE, r.d, r.e, 0, NoEncl)
       /\ ref' = RefOf(r.d, r.e)
       /\ g' = [g EXCEPT !.peeks = 0, !.errs = 0, !.failed = FALSE, !.mark = r.e.cons,
                        !.serr = NoSyntaxError]
       /\ UNCHANGED <<tape, side, enc, w, elast, eg, ber, blast>>

\* val.Close()
DoValueClose ==
  /\ side = "dec"
  /\ d.valid
  /\ \E r \in valueClose(d, env) :
       /\ d' = r.d
       /\ env' = r.e
       /\ last' = Call("vclose", r.err, r.err, EndOfContents, 0, FALSE, r.d, r.e, 0, NoEncl)
       /\ ref' = RefOf(r.d, r.e)
       /\ g' = [g EXCEPT !.peeks = 0, !.errs = 0, !.failed = FALSE, !.mark = r.e.cons,
                        !.serr = NoSyntaxError]
       /\ UNCHANGED <<tape, side, enc, w, elast, eg, ber, blast>>

\* d.Skip()
DoSkip ==
  /\ side = "dec"
  /\ \E r \in Skip(d, env, [g |-> g, ref |-> ref]) :
       /\ d' = r.d
       /\ env' = r.e
       /\ last' = Call("skip", r.kind, r.err, EndOfContents, r.off, FALSE, r.d, r.e, 0, NoEncl)
       /\ ref' = r.hist.ref
       /\ g' = r.hist.g
       /\ UNCHANGED <<tape, side, enc, w, elast, eg, ber, blast>>

\* ------------------------------------------------------------- output

\* The underlying writer's Write(p), len(p) >= 1: [w, n, err].  It accepts
\* all of p, or a prefix of p and reports an error.
SinkWrite(ww, p) ==
  {[w |-> [ww EXCEPT !.out = @ \o p], n |-> Len(p), err |-> "nil"]}
  \cup
  (IF ww.errs < MaxErrs
     THEN {[w |-> [ww EXCEPT !.out = @ \o SubSeq(p, 1, n), !.errs = @ + 1],
            n |-> n, err |-> "transient"] : n \in 0..Len(p)}
     ELSE {})

\* The underlying writer's WriteByte(b): [w, err]
SinkWriteByte(ww, b) ==
  {[w |-> [ww EXCEPT !.out = Append(@, b)], err |-> "nil"]}
  \cup
  (IF ww.errs < MaxErrs
     THEN {[w |-> [ww EXCEPT !.errs = @ + 1], err |-> "transient"]}
     ELSE {})

\* ------------------------------------------------------- bufferedWriter

\* bufferedWriter.Flushable
Flushable(ee) == [ee EXCEPT !.cp = Len(ee.wbuf)]

\* bufferedWriter.flush: [e, w, err]
bufFlush(ee, ww) ==
  IF Len(ee.wbuf) = 0 THEN {[e |-> ee, w |-> ww, err |-> "nil"]}
  ELSE
    LET write == IF ee.cp = 0 THEN Len(ee.wbuf) ELSE ee.cp IN
    {LET cp == IF r.n > 0 THEN Max(ee.cp - r.n, 0) ELSE ee.cp IN
     [e |-> [ee EXCEPT !.wbuf = SubSeq(@, r.n + 1, Len(@)), !.cp = cp],
      w |-> r.w,
      err |-> IF r.n < cp /\ r.err = "nil" THEN "ErrShortWrite" ELSE r.err]
     : r \in SinkWrite(ww, SubSeq(ee.wbuf, 1, write))}

\* bufferedWriter.Flush
Flush(ee, ww) == bufFlush(Flushable(ee), ww)

\* bufferedWriter.Write(p): [e, w, n, err]
RECURSIVE bufWriteLoop(_, _, _, _)
bufWriteLoop(ee, ww, p, nn) ==
  IF Len(p) > BufSize - Len(ee.wbuf)
    THEN IF Len(ee.wbuf) = 0
      THEN UNION {
             IF r.err # "nil"
               THEN {[e |-> ee, w |-> r.w, n |-> nn + r.n, err |-> r.err]}
               ELSE bufWriteLoop(ee, r.w, SubSeq(p, r.n + 1, Len(p)), nn + r.n)
             : r \in SinkWrite(ww, p)}
      ELSE LET n == BufSize - Len(ee.wbuf) IN
           UNION {
             IF r.err # "nil"
               THEN {[e |-> r.e, w |-> r.w, n |-> nn + n, err |-> r.err]}
               ELSE bufWriteLoop(r.e, r.w, SubSeq(p, n + 1, Len(p)), nn + n)
             : r \in bufFlush([ee EXCEPT !.wbuf = @ \o SubSeq(p, 1, n)], ww)}
    ELSE {[e |-> [ee EXCEPT !.wbuf = @ \o p], w |-> ww, n |-> nn + Len(p), err |-> "nil"]}

bufWrite(ee, ww, p) == bufWriteLoop(ee, ww, p, 0)

\* e.wr.Write(p): the underlying writer itself when it is a byte writer
\* (mode "direct"), else the bufferedWriter.
wrWrite(ee, ww, p) ==
  IF ww.mode = "direct"
    THEN {[e |-> ee, w |-> r.w, n |-> r.n, err |-> r.err] : r \in SinkWrite(ww, p)}
    ELSE bufWrite(ee, ww, p)

\* ------------------------------------------------------------- Encoder

\* NewEncoder / Encoder.Reset
NewEncoder ==
  [stack |-> <<>>, curr |-> RootEntry, offset |-> 0,
   val |-> FALSE, valn |-> 0,
   peekHeader |-> EndOfContents, peekBuf |-> <<>>, peekAt |-> 0, peekLen |-> 0,
   wbuf |-> <<>>, cp |-> 0]

\* Encoder.Reset(w): state.reset, bufferedWriter.Reset, e.val = nil and
\* e.peekLen = 0.  peekAt, peekBuf and peekHeader keep their values.
Reset(ee) ==
  [ee EXCEPT !.stack = <<>>, !.curr = RootEntry, !.offset = 0,
             !.val = FALSE, !.valn = 0,
             !.peekLen = 0,
             !.wbuf = <<>>, !.cp = 0]

\* vlq.Length
RECURSIVE vlqLength(_)
vlqLength(n) == IF n < 128 THEN 1 ELSE 1 + vlqLength(n \div 128)

\* Faulty variant of vlqBytes: no continuation bit on the leading groups.
RECURSIVE vlqBytesPlain(_, _)
vlqBytesPlain(n, j) ==
  IF j < 0 THEN <<>>
  ELSE <<(n \div (128 ^ j)) % 128>> \o vlqBytesPlain(n, j - 1)

\* The bytes vlq.Write emits for n, most significant group first.
RECURSIVE vlqBytes(_, _)
vlqBytes(n, j) ==
  IF j < 0 THEN <<>>
  ELSE <<((n \div (128 ^ j)) % 128) + (IF j > 0 THEN 128 ELSE 0)>> \o vlqBytes(n, j - 1)

\* The number of bytes of the big-endian form of a length (bits.Len + 7) / 8
RECURSIVE numLengthBytes(_)
numLengthBytes(l) == IF l < 256 THEN 1 ELSE 1 + numLengthBytes(l \div 256)

RECURSIVE lengthBytes(_, _)
lengthBytes(l, k) ==
  IF k = 0 THEN <<>> ELSE <<(l \div (256 ^ (k - 1))) % 256>> \o lengthBytes(l, k - 1)

\* The bytes encodeHeader hands to writeByte for h, in order.
headerBytes(h) ==
  LET number == h.Tag % 16384
      b == (h.Tag \div 16384) * 64 + (IF h.Constructed THEN 32 ELSE 0)
      id == IF number < 31 THEN <<b + number>>
            ELSE <<b + 31>> \o vlqBytes(number, vlqLength(number) - 1)
      len == IF h.Length = LengthIndefinite THEN <<128>>
             ELSE IF h.Length >= 128
               THEN <<128 + numLengthBytes(h.Length)>>
                    \o lengthBytes(h.Length, numLengthBytes(h.Length))
             ELSE <<h.Length % 256>> IN
  id \o len

\* HeaderSize: the number of bytes of the encoding of h.
HeaderSize(h) ==
  1 + (IF h.Tag % 16384 >= 31 THEN vlqLength(h.Tag % 16384) ELSE 0)
    + (IF h.Length >= 128 THEN 1 + numLengthBytes(h.Length) ELSE 1)

\* Encoder.writeByte for each byte of bs until one fails: [e, err]
RECURSIVE writeBytes(_, _)
writeBytes(ee, bs) ==
  IF Len(bs) = 0 THEN [e |-> ee, err |-> "nil"]
  ELSE IF ee.peekLen = Remaining(ee.curr) THEN [e |-> ee, err |-> "truncated"]
  ELSE writeBytes([ee EXCEPT !.peekBuf = SubSeq(@, 1, ee.peekLen) \o <<Head(bs)>>,
                             !.peekLen = @ + 1], Tail(bs))

\* Faulty variant of flush: a retry writes the scratch buffer from its start.
flushRestart(ee, ww) ==
  IF ee.peekAt = ee.peekLen THEN {[e |-> ee, w |-> ww, err |-> "nil"]}
  ELSE {[e |-> [r.e EXCEPT !.peekAt = r.n], w |-> r.w,
         err |-> IF r.err # "nil" THEN "io" ELSE "nil"]
        : r \in wrWrite(ee, ww, SubSeq(ee.peekBuf, 1, ee.peekLen))}

\* Encoder.flush: [e, w, err]
flush(ee, ww) ==
  IF ee.peekAt = ee.peekLen THEN {[e |-> ee, w |-> ww, err |-> "nil"]}
  ELSE {[e |-> [r.e EXCEPT !.peekAt = @ + r.n], w |-> r.w,
         err |-> IF r.err # "nil" THEN "io" ELSE "nil"]
        : r \in wrWrite(ee, ww, SubSeq(ee.peekBuf, ee.peekAt + 1, ee.peekLen))}

\* Faulty variant of encodeHeader: the bytes left in the scratch buffer are
\* written whatever the header.
encodeHeaderAny(ee, ww, h) ==
  IF ee.peekLen > 0
    THEN flush(ee, ww)
    ELSE LET r == writeBytes([ee EXCEPT !.peekHeader = h], headerBytes(h)) IN
         IF r.err # "nil" THEN {[e |-> r.e, w |-> ww, err |-> r.err]}
         ELSE flush(r.e, ww)

\* Encoder.encodeHeader: [e, w, err]
encodeHeader(ee, ww, h) ==
  IF ee.peekLen > 0
    THEN IF h # ee.peekHeader
           THEN {[e |-> ee, w |-> ww, err |-> "unwritten"]}
           ELSE flush(ee, ww)
    ELSE LET r == writeBytes([ee EXCEPT !.peekHeader = h], headerBytes(h)) IN
         IF r.err # "nil" THEN {[e |-> r.e, w |-> ww, err |-> r.err]}
         ELSE flush(r.e, ww)

\* Faulty variant of flushTopLevel: the write buffer is not flushed.
flushTopLevelNever(r) == {r}

\* The end of a top-level data value flushes the write buffer
\* (writeHeader, lines 597-603).
flushTopLevel(r) ==
  IF r.err # "nil" THEN {r}
  ELSE IF StackDepth(r.e) = 1
    THEN {[f EXCEPT !.err = IF @ # "nil" THEN "io" ELSE "nil"] : f \in Flush(r.e, r.w)}
  ELSE {r}

\* Faulty variant of writeEndOfContents: no end-of-contents bytes are written
\* for an indefinite-length data value either.
writeEndOfContentsNever(ee, ww, h) ==
  IF h # EndOfContents THEN {[e |-> ee, w |-> ww, err |-> "invalidEOC"]}
  ELSE IF root(ee) \/ ~ee.curr.Header.Constructed
    THEN {[e |-> ee, w |-> ww, err |-> "unexpectedEOC"]}
  ELSE IF ee.curr.Header.Length # LengthIndefinite /\ Remaining(ee.curr) # 0
    THEN {[e |-> ee, w |-> ww, err |-> "unexpectedEOC"]}
  ELSE flushTopLevel([e |-> ee, w |-> ww, err |-> "nil"])

\* Encoder.writeHeader for h.Tag = TagEndOfContents: [e, w, err]
writeEndOfContents(ee, ww, h) ==
  IF h # EndOfContents THEN {[e |-> ee, w |-> ww, err |-> "invalidEOC"]}
  ELSE IF root(ee) \/ ~ee.curr.Header.Constructed
    THEN {[e |-> ee, w |-> ww, err |-> "unexpectedEOC"]}
  ELSE IF ee.curr.Header.Length # LengthIndefinite /\ Remaining(ee.curr) # 0
    THEN {[e |-> ee, w |-> ww, err |-> "unexpectedEOC"]}
  ELSE UNION {flushTopLevel(r)
              : r \in IF ee.curr.Header.Length = LengthIndefinite
                        THEN encodeHeader(ee, ww, h)
                        ELSE {[e |-> ee, w |-> ww, err |-> "nil"]}}

\* Encoder.writeHeader: [e, w, err]
writeHeader(ee, ww, h) ==
  IF h.Tag = TagEndOfContents THEN writeEndOfContents(ee, ww, h)
  ELSE IF ~h.Constructed /\ h.Length = LengthIndefinite
    THEN {[e |-> ee, w |-> ww, err |-> "indefPrimitive"]}
  ELSE IF /\ h.Length # LengthIndefinite
          /\ ULess(Remaining(ee.curr), AddWrap(HeaderSize(h), h.Length))
    THEN {[e |-> ee, w |-> ww, err |-> "exceedsParent"]}
  ELSE encodeHeader(ee, ww, h)

\* Encoder.WriteHeader: [e, w, kind, err, off, val]
WriteHeader(ee, ww, h) ==
  IF ee.val
    THEN {[e |-> ee, w |-> ww, kind |-> "state", err |-> "notClosed", off |-> 0, val |-> FALSE]}
    ELSE {
      IF r.err = "io"
        THEN [e |-> r.e, w |-> r.w, kind |-> "io", err |-> "io", off |-> 0, val |-> FALSE]
      ELSE IF r.err # "nil"
        THEN [e |-> [r.e EXCEPT !.peekLen = 0, !.peekAt = 0], w |-> r.w,
              kind |-> "syntax", err |-> r.err, off |-> r.e.offset, val |-> FALSE]
      ELSE
        LET e1 == IF h.Tag = TagEndOfContents
                    THEN pop(r.e, r.e.peekAt) ELSE push(r.e, h, r.e.peekAt)
            e2 == Flushable([e1 EXCEPT !.peekLen = 0, !.peekAt = 0])
            noval == h.Constructed \/ h.Tag = TagEndOfContents IN
        [e |-> IF noval THEN e2 ELSE [e2 EXCEPT !.val = TRUE, !.valn = Remaining(e2.curr)],
         w |-> r.w, kind |-> "nil", err |-> "nil", off |-> 0, val |-> ~noval]
      : r \in writeHeader(ee, ww, h)}

\* valueWriter.Len
valLen(ee) == Max(ee.valn, 0)

\* Faulty variant of Encoder.valueDone: the data value is not popped.
encValueDoneNoPop(ee, ww) ==
  {IF f.err # "nil"
     THEN [e |-> f.e, w |-> f.w, err |-> "io"]
     ELSE [e |-> [f.e EXCEPT !.val = FALSE], w |-> f.w, err |-> "nil"]
   : f \in IF StackDepth(ee) = 1 THEN Flush(ee, ww)
           ELSE {[e |-> ee, w |-> ww, err |-> "nil"]}}

\* Encoder.valueDone: [e, w, err]
encValueDone(ee, ww) ==
  {IF f.err # "nil"
     THEN [e |-> f.e, w |-> f.w, err |-> "io"]
     ELSE [e |-> pop([f.e EXCEPT !.val = FALSE], Remaining(f.e.curr)), w |-> f.w, err |-> "nil"]
   : f \in IF StackDepth(ee) = 1 THEN Flush(ee, ww)
           ELSE {[e |-> ee, w |-> ww, err |-> "nil"]}}

\* valueWriter.Write(p): [e, w, n, err]
valueWrite(ee, ww, p) ==
  IF ee.valn < 0 THEN {[e |-> ee, w |-> ww, n |-> 0, err |-> "closed"]}
  ELSE
    LET write == Min(Len(p), valLen(ee))
        rs == IF write > 0 THEN wrWrite(ee, ww, SubSeq(p, 1, write))
              ELSE {[e |-> ee, w |-> ww, n |-> 0, err |-> "nil"]} IN
    {[e |-> [r.e EXCEPT !.valn = @ - r.n], w |-> r.w, n |-> r.n,
      err |-> IF r.err # "nil" THEN "io"
              ELSE IF r.n < write THEN "io"
              ELSE IF write < Len(p) THEN "truncated"
              ELSE "nil"]
     : r \in rs}

\* valueWriter.Close: [e, w, err]
valueWriterClose(ee, ww) ==
  IF ee.valn < 0 THEN {[e |-> ee, w |-> ww, err |-> "closed"]}
  ELSE IF valLen(ee) > 0 THEN {[e |-> ee, w |-> ww, err |-> "notFullyWritten"]}
  ELSE encValueDone([ee EXCEPT !.valn = -1], ww)

\* Faulty variant of OutputOffset: the bytes of a partly written header do
\* not count.
OutputOffsetCommitted(ee) ==
  IF ee.val THEN ee.offset + (ee.curr.Length - valLen(ee)) ELSE ee.offset

\* Encoder.OutputOffset
OutputOffset(ee) ==
  IF ee.val THEN ee.offset + (ee.curr.Length - valLen(ee)) ELSE ee.offset + ee.peekAt

\* ------------------------------------------------- encoder: the state machine

\* The headers a caller passes to WriteHeader.
EncHeaders ==
  { EndOfContents,
    Hdr(2, FALSE, 1),
    Hdr(16, TRUE, LengthIndefinite), Hdr(16, TRUE, 3), Hdr(16, TRUE, 4),
    Hdr(2, FALSE, LengthIndefinite),
    Hdr(50, FALSE, 0) }

\* The output so far: the bytes the underlying writer has accepted, then
\* the bytes held in the internal write buffer.
Emitted(ee, ww) == ww.out \o ee.wbuf

\* What a caller can observe of the encoder between calls.
EObs(ee) ==
  [depth |-> StackDepth(ee),
   hdrs |-> [i \in 0..StackDepth(ee) |-> StackIndex(ee, i)],
   dvo |-> DataValueOffset(ee),
   out |-> OutputOffset(ee)]

\* The result of WriteHeader(h) on encoder ee when the underlying writer,
\* holding the bytes out, accepts every write.
RefWrite(ee, out, mode, h) ==
  LET r == CHOOSE r \in WriteHeader(ee, [out |-> out, errs |-> MaxErrs, mode |-> mode], h) : TRUE IN
  [kind |-> r.kind, err |-> r.err, val |-> r.val, emitted |-> Emitted(r.e, r.w),
   out |-> r.w.out, obs |-> EObs(r.e)]

\* The record of an encoder call.
ECall(op, h, kind, err, val, n, ee, ww, errs, same, closed) ==
  [op |-> op, h |-> h, kind |-> kind, err |-> err, val |-> val, n |-> n,
   pre |-> EObs(enc), post |-> EObs(ee),
   preEmitted |-> Emitted(enc, w), emitted |-> Emitted(ee, ww), out |-> ww.out,
   prePeekAt |-> enc.peekAt, preOffset |-> enc.offset,
   prePeekLen |-> enc.peekLen, prePeekHeader |-> enc.peekHeader, preOut |-> w.out,
   mark |-> Emitted(eg.menc, [out |-> eg.mout]),
   ref |-> RefWrite(eg.menc, eg.mout, ww.mode, h),
   errs |-> errs, same |-> same, failed |-> eg.failed, closed |-> closed]

\* The history of the WriteHeader calls since the encoder state last changed
\* outside WriteHeader; a call on a closed value writer changes nothing and
\* leaves the history as it is.  log holds the headers the encoder has
\* accepted, each with the offset and the depth at which it was given and
\* the content bytes its value writer has accepted.
NoHistory(ee, ww, encl) ==
  [menc |-> ee, mout |-> ww.out, hdr |-> EndOfContents, tried |-> FALSE, same |-> TRUE,
   errs |-> 0, failed |-> FALSE, encl |-> encl, log |-> <<>>]

\* The log after the value writer of the last header has accepted p.
Written(p) ==
  IF Len(eg.log) = 0 THEN eg.log ELSE [eg.log EXCEPT ![Len(eg.log)].data = @ \o p]

\* e.WriteHeader(h)
DoWriteHeader ==
  /\ side = "enc"
  /\ \E h \in EncHeaders :
       /\ h # EndOfContents => Len(Emitted(enc, w)) < MaxOutput
       /\ h.Constructed => StackDepth(enc) < MaxDepth
       /\ \E r \in WriteHeader(enc, w, h) :
            LET ok == r.kind = "nil"
                same == eg.tried => (eg.same /\ h = eg.hdr)
                errs == eg.errs + (IF r.kind = "io" THEN 1 ELSE 0)
                top == IF Len(eg.encl) > 0 THEN eg.encl[Len(eg.encl)] ELSE NoEncl
                rest == SubSeq(eg.encl, 1, Len(eg.encl) - 1)
                size == Len(headerBytes(h))
                closed == IF ok /\ h.Tag = TagEndOfContents
                            THEN [top EXCEPT !.end = Len(Emitted(r.e, r.w))] ELSE NoEncl
                encl == IF ~ok THEN eg.encl
                        ELSE IF h.Tag = TagEndOfContents
                          THEN AddChild(rest, top.hdr + top.sum
                                              + (IF top.len = LengthIndefinite THEN size ELSE 0))
                        ELSE IF h.Constructed
                          THEN Append(eg.encl,
                                      [hstart |-> Len(Emitted(eg.menc, [out |-> eg.mout])),
                                       cstart |-> Len(Emitted(r.e, r.w)),
                                       len |-> h.Length, hdr |-> size, sum |-> 0, end |-> -1])
                        ELSE AddChild(eg.encl, size + h.Length) IN
            /\ enc' = r.e
            /\ w' = r.w
            /\ elast' = ECall("whdr", h, r.kind, r.err, r.val, 0, r.e, r.w, errs, same, closed)
            /\ eg' = IF ok THEN [NoHistory(r.e, r.w, encl) EXCEPT !.log =
                                  Append(eg.log, [h |-> h, at |-> Len(Emitted(eg.menc, [out |-> eg.mout])),
                                                  depth |-> StackDepth(enc), data |-> <<>>])]
                     ELSE [eg EXCEPT !.tried = TRUE,
                                     !.hdr = IF eg.tried THEN @ ELSE h,
                                     !.same = same,
                                     !.errs = errs,
                                     !.failed = @ \/ r.kind # "io"]
  /\ UNCHANGED <<tape, d, env, last, ref, g, side, ber, blast>>

\* val.Write(p) on the value writer WriteHeader returned, len(p) in 0..2
DoValueWrite ==
  /\ side = "enc"
  /\ enc.val \/ enc.valn < 0
  /\ Len(Emitted(enc, w)) < MaxOutput
  /\ \E k \in 0..2 : \E r \in valueWrite(enc, w, [i \in 1..k |-> 21]) :
       /\ enc' = r.e
       /\ w' = r.w
       /\ elast' = ECall("vwrite", EndOfContents, r.err, r.err, FALSE, r.n, r.e, r.w, 0, TRUE, NoEncl)
       /\ eg' = IF r.e = enc /\ r.w = w THEN eg
                ELSE [NoHistory(r.e, r.w, eg.encl) EXCEPT !.log = Written([i \in 1..r.n |-> 21])]
  /\ UNCHANGED <<tape, d, env, last, ref, g, side, ber, blast>>

\* val.Close() on the value writer
DoValueWriterClose ==
  /\ side = "enc"
  /\ enc.val \/ enc.valn < 0
  /\ \E r \in valueWriterClose(enc, w) :
       /\ enc' = r.e
       /\ w' = r.w
       /\ elast' = ECall("vclose", EndOfContents, r.err, r.err, FALSE, 0, r.e, r.w, 0, TRUE, NoEncl)
       /\ eg' = IF r.e = enc /\ r.w = w THEN eg
                ELSE [NoHistory(r.e, r.w, eg.encl) EXCEPT !.log = eg.log]
  /\ UNCHANGED <<tape, d, env, last, ref, g, side, ber, blast>>

vars == <<tape, d, env, last, ref, g, side, enc, w, elast, eg, ber, blast>>

\* The history of a decoder that has not been called.
NoReads ==
  [peeks |-> 0, errs |-> 0, failed |-> FALSE, mark |-> 0, encl |-> <<>>,
   serr |-> NoSyntaxError]

\* The record of a decoder that has not been called.
NoCall ==
  [op |-> "none", kind |-> "nil", err |-> "nil", h |-> EndOfContents, off |-> 0,
   val |-> FALSE, pre |-> Obs(d), post |-> Obs(d), cons |-> 0, pulled |-> 0,
   ref |-> ref, peeks |-> 0, errs |-> 0, failed |-> FALSE,
   preValid |-> FALSE, preRem |-> LengthIndefinite, preIndef |-> TRUE,
   bound |-> -1, raw |-> RawAt(0), closed |-> NoEncl, latched |-> NoSyntaxError,
   start |-> -1]

InitDecoder ==
  /\ d = NewDecoder
  /\ ref = RefOf(d, env)
  /\ g = NoReads
  /\ last = NoCall

InitEncoder ==
  /\ enc = NewEncoder
  /\ eg = NoHistory(enc, w, <<>>)
  /\ elast = [op |-> "none", h |-> EndOfContents, kind |-> "nil", err |-> "nil",
              val |-> FALSE, n |-> 0, pre |-> EObs(enc), post |-> EObs(enc),
              preEmitted |-> <<>>, emitted |-> <<>>, out |-> <<>>,
              prePeekAt |-> 0, preOffset |-> 0, mark |-> <<>>,
              prePeekLen |-> 0, prePeekHeader |-> EndOfContents, preOut |-> <<>>,
              ref |-> RefWrite(enc, <<>>, w.mode, EndOfContents),
              errs |-> 0, same |-> TRUE, failed |-> FALSE, closed |-> NoEncl]

\* The constants of package ber: bits.UintSize and the length 1<<23 from
\* which decodeHeader does not shift.
UintSize == 64

BerMaxShift == 8388608

\* ------------------------------------------------- package ber: the Reader

\* The underlying reader of the root limitReader is a bytes.Reader (an
\* io.Seeker, "seeker") or a bufio.Reader (with Discard, "discarder"); both
\* are byte readers and hold the whole input.  A source of the kind
\* "reader" is no byte reader: the Decoder reads it through d.buf and d.lr.
SourceKinds == {"seeker", "discarder"}

\* A reader: its header H, the remaining bytes N of its limitReader, its
\* fatal error err and the root flag; hstart and cstart record where its
\* header and its content start in the input.  rs[i + 1] is rs[i].curr.
Frame(h, n, isRoot, hstart, cstart) ==
  [H |-> h, N |-> n, err |-> "nil", root |-> isRoot, hstart |-> hstart, cstart |-> cstart]

\* NewDecoder(r): the root reader.  pos is the number of bytes the readers
\* have consumed.  For a source that is no byte reader, taken is the number
\* of bytes taken from the source (d.buf holds the bytes from pos to taken),
\* lrN is d.lr.N, and a Read of the source at offset t returns at most
\* chunks[t % Len(chunks) + 1] bytes.
NewBerDecoder(kind) ==
  [rs |-> <<Frame(Hdr(0, TRUE, LengthIndefinite), LengthIndefinite, TRUE, 0, 0)>>,
   pos |-> 0, kind |-> kind,
   sr |-> "none", t |-> 0, n |-> 0, leaf |-> 0,
   taken |-> 0, lrN |-> LengthIndefinite, chunks |-> <<DecoderBufSize>>]

\* Read(p) of the source, len(p) = k >= 1, directly (bufferedReader.Read with
\* an empty buffer) or through d.lr (limitReader.Read): [st, n, err].  The
\* bytes read are those of the tape from st.taken on.
sourceRead(st, k, viaLr) ==
  LET limited == viaLr /\ st.lrN # LengthIndefinite
      want == IF limited THEN Min(k, st.lrN) ELSE k
      n == Min(Min(want, st.chunks[(st.taken % Len(st.chunks)) + 1]), Len(tape) - st.taken) IN
  IF viaLr /\ st.lrN = 0 THEN [st |-> st, n |-> 0, err |-> "EOF"]
  ELSE IF want < 0 THEN [st |-> st, n |-> 0, err |-> "panic"]
  ELSE IF st.taken >= Len(tape)
    THEN [st |-> st, n |-> 0, err |-> IF limited THEN "UnexpectedEOF" ELSE "EOF"]
  ELSE [st |-> [st EXCEPT !.taken = @ + n, !.lrN = IF limited THEN @ - n ELSE @],
        n |-> n, err |-> "nil"]

\* d.buf.ReadByte(): [st, b, err]
bufReadByte(st) ==
  LET filled(f) ==
        IF f.n = 0 THEN [st |-> f.st, b |-> 0, err |-> f.err]
        ELSE [st |-> [f.st EXCEPT !.pos = @ + 1], b |-> tape[st.pos + 1], err |-> "nil"] IN
  IF st.taken > st.pos
    THEN [st |-> [st EXCEPT !.pos = @ + 1], b |-> tape[st.pos + 1], err |-> "nil"]
  ELSE filled(sourceRead(st, DecoderBufSize, TRUE))

\* d.buf.Read(p), len(p) = k >= 1: [st, data, err]
bufRead(st, k) ==
  LET copy(s, n) == [st |-> [s EXCEPT !.pos = @ + n],
                     data |-> SubSeq(tape, st.pos + 1, st.pos + n), err |-> "nil"]
      direct(f) == [st |-> [f.st EXCEPT !.pos = @ + f.n],
                    data |-> SubSeq(tape, st.pos + 1, st.pos + f.n), err |-> f.err]
      filled(f) ==
        IF f.n = 0 THEN [st |-> f.st, data |-> <<>>, err |-> f.err]
        ELSE copy(f.st, Min(k, f.n)) IN
  IF st.taken > st.pos THEN copy(st, Min(k, st.taken - st.pos))
  ELSE IF k >= DecoderBufSize THEN direct(sourceRead(st, k, TRUE))
  ELSE filled(sourceRead(st, DecoderBufSize, TRUE))

\* d.buf.Discard(n), n >= 1: [st, n, err]
bufDiscard(st, n) ==
  LET RECURSIVE again(_, _)
      skip(s, remain) == Min(s.taken - s.pos, remain)
      loop(s, remain, err) ==
        IF remain - skip(s, remain) = 0
          THEN [st |-> [s EXCEPT !.pos = @ + skip(s, remain)], n |-> n, err |-> "nil"]
        ELSE IF err # "nil"
          THEN [st |-> [s EXCEPT !.pos = @ + skip(s, remain)],
                n |-> n - (remain - skip(s, remain)), err |-> err]
        ELSE again([s EXCEPT !.pos = @ + skip(s, remain)], remain - skip(s, remain))
      filled(f, remain) == loop(f.st, remain, f.err)
      again(s, remain) ==
        IF s.taken > s.pos THEN loop(s, remain, "nil")
        ELSE filled(sourceRead(s, DecoderBufSize, TRUE), remain) IN
  again(st, n)

\* io.EOF becomes io.ErrUnexpectedEOF.
Unexpected(err) == IF err = "EOF" THEN "UnexpectedEOF" ELSE err

\* limitReader.ReadByte of reader j: [st, b, err].  With a source that is no
\* byte reader, the reader that Decoder.Next returned (j = 2) reads from
\* d.buf, and the root reader reads one byte with io.ReadFull from its
\* bufferedReader: from d.buf if it holds bytes, else from the source.
RECURSIVE LrReadByte(_, _)
LrReadByte(st, j) ==
  LET limited(r) ==
        IF st.rs[j].N = LengthIndefinite THEN r
        ELSE IF r.err # "nil" THEN [st |-> r.st, b |-> 0, err |-> Unexpected(r.err)]
        ELSE [st |-> [r.st EXCEPT !.rs[j].N = @ - 1], b |-> r.b, err |-> "nil"]
      direct(f) ==
        IF f.n = 0 THEN [st |-> f.st, b |-> 0, err |-> f.err]
        ELSE [st |-> [f.st EXCEPT !.pos = @ + 1], b |-> tape[st.pos + 1], err |-> "nil"] IN
  IF st.rs[j].N = 0 THEN [st |-> st, b |-> 0, err |-> "EOF"]
  ELSE limited(IF j > 1 /\ ~(j = 2 /\ st.kind = "reader") THEN LrReadByte(st, j - 1)
               ELSE IF st.kind = "reader"
                 THEN IF j = 2 \/ st.taken > st.pos THEN bufReadByte(st)
                      ELSE direct(sourceRead(st, 1, FALSE))
               ELSE IF st.pos < Len(tape)
                 THEN [st |-> [st EXCEPT !.pos = @ + 1], b |-> tape[st.pos + 1], err |-> "nil"]
               ELSE [st |-> st, b |-> 0, err |-> "EOF"])

\* Faulty variant of LrRead: the limit of the reader is not applied.
RECURSIVE LrReadUnlimited(_, _, _)
LrReadUnlimited(st, j, k) ==
  IF j > 1 THEN LrReadUnlimited(st, j - 1, k)
  ELSE IF st.pos >= Len(tape) THEN [st |-> st, data |-> <<>>, err |-> "EOF"]
  ELSE LET n == Min(k, Len(tape) - st.pos) IN
       [st |-> [st EXCEPT !.pos = @ + n],
        data |-> SubSeq(tape, st.pos + 1, st.pos + n), err |-> "nil"]

\* limitReader.Read(p) of reader j, len(p) = k >= 1: [st, data, err]
RECURSIVE LrRead(_, _, _)
LrRead(st, j, k) ==
  LET k1 == IF st.rs[j].N = LengthIndefinite THEN k ELSE Min(k, st.rs[j].N)
      n == Min(k1, Len(tape) - st.pos)
      limited(r) ==
        IF st.rs[j].N = LengthIndefinite THEN r
        ELSE [st |-> [r.st EXCEPT !.rs[j].N = @ - Len(r.data)], data |-> r.data,
              err |-> IF st.rs[j].N - Len(r.data) > 0 /\ r.err = "EOF"
                        THEN "UnexpectedEOF" ELSE r.err]
      direct(f) == [st |-> [f.st EXCEPT !.pos = @ + f.n],
                    data |-> SubSeq(tape, st.pos + 1, st.pos + f.n), err |-> f.err] IN
  IF st.rs[j].N = 0 THEN [st |-> st, data |-> <<>>, err |-> "EOF"]
  ELSE limited(IF j > 1 /\ ~(j = 2 /\ st.kind = "reader") THEN LrRead(st, j - 1, k1)
               ELSE IF st.kind = "reader"
                 THEN IF j = 2 THEN bufRead(st, k1)
                      ELSE IF st.taken > st.pos THEN bufRead(st, Min(st.taken - st.pos, k1))
                      ELSE direct(sourceRead(st, k1, FALSE))
               ELSE IF st.pos >= Len(tape) THEN [st |-> st, data |-> <<>>, err |-> "EOF"]
               ELSE [st |-> [st EXCEPT !.pos = @ + n],
                     data |-> SubSeq(tape, st.pos + 1, st.pos + n), err |-> "nil"])

\* limitReader.Discard(n) of reader j: [st, n, err]
RECURSIVE LrDiscard(_, _, _)
LrDiscard(st, j, n) ==
  LET len == st.rs[j].N
      amount == IF len # LengthIndefinite /\ len < n THEN len ELSE n
      rest == Len(tape) - st.pos
      limited(r) ==
        IF len = LengthIndefinite THEN [st |-> r.st, n |-> amount, err |-> r.err]
        ELSE [st |-> [r.st EXCEPT !.rs[j].N = @ - r.n], n |-> r.n,
              err |-> IF n > len /\ r.err = "nil" THEN "EOF"
                      ELSE IF n < len /\ r.err = "EOF" THEN "UnexpectedEOF"
                      ELSE r.err] IN
  IF n = 0 THEN [st |-> st, n |-> 0, err |-> "nil"]
  ELSE limited(IF j > 1 /\ ~(j = 2 /\ st.kind = "reader") THEN LrDiscard(st, j - 1, amount)
               ELSE IF st.kind = "reader" /\ j = 2 THEN bufDiscard(st, amount)
               ELSE IF st.kind = "reader"
                 THEN \* io.CopyN(io.Discard, rd, discard)
                      [st |-> [st EXCEPT !.pos = Min(@ + amount, Len(tape)),
                                         !.taken = Max(@, Min(st.pos + amount, Len(tape)))],
                       n |-> Min(amount, Len(tape) - st.pos),
                       err |-> IF rest < amount THEN "EOF" ELSE "nil"]
               ELSE IF st.kind = "seeker"
                 THEN \* Seek(amount, io.SeekCurrent) returns the new offset
                      [st |-> [st EXCEPT !.pos = @ + amount], n |-> st.pos + amount,
                       err |-> "nil"]
               ELSE \* bufio.Reader.Discard
                    IF rest >= amount
                      THEN [st |-> [st EXCEPT !.pos = @ + amount], n |-> amount, err |-> "nil"]
                      ELSE [st |-> [st EXCEPT !.pos = Max(@, Len(tape))], n |-> Max(rest, 0),
                            err |-> "EOF"])

\* The loop of decodeBase128: [st, n, err]
RECURSIVE berBase128Loop(_, _, _, _, _, _)
berBase128Loop(st, j, b, ret, numBits, syn) ==
  LET nb(r) == IF numBits = 0 THEN BitsLen(r.b % 128) ELSE numBits + 7
      step(r) ==
        IF r.err # "nil"
          THEN [st |-> r.st, n |-> ret, err |-> IF syn # "nil" THEN syn ELSE Unexpected(r.err)]
        ELSE berBase128Loop(r.st, j, r.b, (ret * 128 + (r.b % 128)) % (MaxTag + 1), nb(r),
                            IF nb(r) > UintSize THEN "base128TooLarge" ELSE syn) IN
  IF b < 128 THEN [st |-> st, n |-> ret, err |-> syn]
  ELSE step(LrReadByte(st, j))

\* decodeBase128, the result modulo 2^14 (the bits a Tag keeps): [st, n, err]
berBase128(st, j) ==
  LET first(r) ==
        IF r.err # "nil" THEN [st |-> r.st, n |-> 0, err |-> r.err]
        ELSE berBase128Loop(r.st, j, r.b, r.b % 128, BitsLen(r.b % 128),
                            IF r.b = 128 THEN "base128NotMinimal" ELSE "nil") IN
  first(LrReadByte(st, j))

\* The long-form length loop of decodeHeader (package ber): [st, h, err]
RECURSIVE berLengthLoop(_, _, _, _, _)
berLengthLoop(st, j, h, numBytes, err) ==
  LET step(r) ==
        IF r.err # "nil" THEN [st |-> r.st, h |-> h, err |-> Unexpected(r.err)]
        ELSE IF h.Length >= BerMaxShift
          THEN berLengthLoop(r.st, j, h, numBytes - 1, "lengthTooLarge")
        ELSE berLengthLoop(r.st, j, [h EXCEPT !.Length = @ * 256 + r.b], numBytes - 1, "nil") IN
  IF numBytes = 0 THEN [st |-> st, h |-> h, err |-> err]
  ELSE step(LrReadByte(st, j))

\* decodeHeader (package ber) from the limitReader of reader j: [st, h, err]
berDecodeHeader(st, j) ==
  LET class(b) == (b \div 64) * (MaxTag + 1)
      h0(b) == Hdr(class(b) + (b % 32), (b \div 32) % 2 = 1, 0)
      length(t, l) ==
        IF l.err # "nil" THEN [st |-> l.st, h |-> t.h, err |-> Unexpected(l.err)]
        ELSE IF l.b < 128 THEN [st |-> l.st, h |-> [t.h EXCEPT !.Length = l.b], err |-> "nil"]
        ELSE IF l.b = 128
          THEN [st |-> l.st, h |-> [t.h EXCEPT !.Length = LengthIndefinite], err |-> "nil"]
        ELSE berLengthLoop(l.st, j, t.h, l.b % 128, "nil")
      identifier(t) ==
        IF t.err # "nil" THEN [st |-> t.st, h |-> t.h, err |-> Unexpected(t.err)]
        ELSE length(t, LrReadByte(t.st, j))
      highTag(b, v) == [st |-> v.st, h |-> [h0(b) EXCEPT !.Tag = class(b) + v.n], err |-> v.err]
      first(r) ==
        IF r.err # "nil" THEN [st |-> r.st, h |-> EndOfContents, err |-> r.err]
        ELSE IF r.b % 32 = 31 THEN identifier(highTag(r.b, berBase128(r.st, j)))
        ELSE identifier([st |-> r.st, h |-> h0(r.b), err |-> "nil"]) IN
  first(LrReadByte(st, j))

\* A call of Next that returns no header: [st, h, er, err, hpos]
NoNext(st, err) == [st |-> st, h |-> EndOfContents, er |-> FALSE, err |-> err, hpos |-> -1]

\* The part of reader.Next after r.curr has been discarded: decodes the
\* next header from position st.pos and creates the child reader.
berNextHeader(st, i) ==
  LET r == st.rs[i]
      fatal(s, err) == NoNext([s EXCEPT !.rs[i].err = err], err)
      child(s, h) ==
        LET len == s.rs[i].N
            err == IF h = EndOfContents THEN "syntax:unexpectedEOC"
                   ELSE IF h.Tag = TagEndOfContents /\ (h.Constructed \/ h.Length # 0)
                     THEN "syntax:invalidEOC"
                   ELSE "nil"
            n == IF h.Length = LengthIndefinite THEN len ELSE h.Length
            err2 == IF h.Length # LengthIndefinite /\ len # LengthIndefinite /\ h.Length > len
                      THEN "syntax:exceedsParent" ELSE err IN
        [st |-> [s EXCEPT !.rs = Append(@, Frame(h, n, FALSE, st.pos, s.pos))],
         h |-> h, er |-> TRUE, err |-> err2, hpos |-> st.pos]
      decoded(dh) ==
        IF dh.err # "nil"
          THEN IF dh.err = "UnexpectedEOF"
                  \/ (dh.err = "EOF" /\ r.H.Length = LengthIndefinite /\ ~r.root)
                 THEN fatal(dh.st, "syntax:decodingChild")
                 ELSE fatal(dh.st, dh.err)
        ELSE IF dh.h = EndOfContents /\ r.H.Length = LengthIndefinite THEN fatal(dh.st, "EOF")
        ELSE IF ~dh.h.Constructed /\ dh.h.Length = LengthIndefinite
          THEN fatal(dh.st, "syntax:primitiveIndefinite")
        ELSE child(dh.st, dh.h) IN
  decoded(berDecodeHeader(st, i))

\* Faulty variant of berDiscardDefinite: the unread bytes are left in place.
berDiscardDefiniteNothing(st, j) == [st |-> st, err |-> "nil"]

\* reader.discard of a definite-length reader j: [st, err]
berDiscardDefinite(st, j) ==
  LET kept(r) ==
        [st |-> IF r.st.rs[j].err = "nil" THEN [r.st EXCEPT !.rs[j].err = r.err] ELSE r.st,
         err |-> r.err] IN
  kept(LrDiscard(st, j, st.rs[j].N))

RECURSIVE berNext(_, _)
RECURSIVE berDiscard(_, _)
RECURSIVE berDiscardLoop(_, _, _)

\* Faulty variant of berNext: the header is decoded although r.err is set.
berNextNoLatch(st, i) ==
  LET discarded(dr) == [dr.st EXCEPT !.rs = [SubSeq(@, 1, i) EXCEPT ![i].err = dr.err]] IN
  IF ~st.rs[i].H.Constructed THEN NoNext(st, "syntax:primitiveEncoding")
  ELSE berNextHeader(IF Len(st.rs) > i THEN discarded(berDiscard(st, i + 1)) ELSE st, i)

\* reader.Next of reader i: [st, h, er, err, hpos]
berNext(st, i) ==
  LET discarded(dr) == [dr.st EXCEPT !.rs = [SubSeq(@, 1, i) EXCEPT ![i].err = dr.err]]
      next(s1) == IF s1.rs[i].err # "nil" THEN NoNext(s1, s1.rs[i].err)
                  ELSE berNextHeader(s1, i) IN
  IF ~st.rs[i].H.Constructed THEN NoNext(st, "syntax:primitiveEncoding")
  ELSE next(IF Len(st.rs) > i THEN discarded(berDiscard(st, i + 1)) ELSE st)

\* The loop of reader.discard for an indefinite-length reader j
berDiscardLoop(st, j, err) ==
  LET again(r) == berDiscardLoop(r.st, j, r.err) IN
  IF st.rs[j].err = "nil" THEN again(berNext(st, j))
  ELSE [st |-> st, err |-> IF st.rs[j].err = "EOF" THEN "nil" ELSE err]

\* reader.discard of reader j: [st, err]
berDiscard(st, j) ==
  IF st.rs[j].H.Length # LengthIndefinite THEN berDiscardDefinite(st, j)
  ELSE berDiscardLoop(st, j, "nil")

RECURSIVE berClose(_, _)
RECURSIVE berCloseLoop(_, _, _, _)

\* The loop of reader.Close of a constructed reader i: [st, err]
berCloseLoop(st, i, err, extended) ==
  LET afterNext(r) == berCloseLoop(r.st, i, r.err, Len(r.st.rs) > i)
      afterClose(c) ==
        IF c.err = "nil"
          THEN berCloseLoop([c.st EXCEPT !.rs = SubSeq(@, 1, i)], i, "nil", extended)
          ELSE berCloseLoop(c.st, i, c.err, extended) IN
  IF err # "nil"
    THEN [st |-> st,
          err |-> IF err # "EOF" THEN err ELSE IF extended THEN "syntax:extraData" ELSE "nil"]
  ELSE IF Len(st.rs) = i THEN afterNext(berNext(st, i))
  ELSE afterClose(berClose(st, i + 1))

\* Faulty variant of decoderNext: d.lr is not limited to the data value.
decoderNextUnlimited(st) == berNext(st, 1)

\* Decoder.Next: the Next of the root reader and, with a source that is no
\* byte reader, the limit of d.lr for the fills of d.buf.
decoderNext(st) ==
  LET adjusted(r) ==
        IF r.er /\ st.kind = "reader"
          THEN [r EXCEPT !.st.lrN = IF r.h.Length = LengthIndefinite THEN LengthIndefinite
                                    ELSE r.h.Length - (r.st.taken - r.st.pos)]
        ELSE r IN
  adjusted(berNext(st, 1))

\* reader.Close of reader i: [st, err]
berClose(st, i) ==
  IF ~st.rs[i].H.Constructed THEN berDiscard(st, i)
  ELSE berCloseLoop(st, i, st.rs[i].err, FALSE)

\* reader.Read(p) of reader i, len(p) = k >= 1: [st, data, err]
berRead(st, i, k) ==
  IF st.rs[i].H.Constructed THEN [st |-> st, data |-> <<>>, err |-> "syntax:constructedEncoding"]
  ELSE IF st.rs[i].err # "nil" THEN [st |-> st, data |-> <<>>, err |-> st.rs[i].err]
  ELSE LrRead(st, i, k)

\* reader.ReadByte of reader i: [st, b, err]
berReadByte(st, i) ==
  IF st.rs[i].H.Constructed THEN [st |-> st, b |-> 0, err |-> "syntax:constructedEncoding"]
  ELSE IF st.rs[i].err # "nil" THEN [st |-> st, b |-> 0, err |-> st.rs[i].err]
  ELSE LrReadByte(st, i)

\* -------------------------------------------- package ber: StringReader

\* NewStringReader(h.Tag, er) on the reader er that d.Next() returned
\* (rs[2]).  sr is "cons" or "prim" with r.curr = nil, "primUsed" once a
\* primitive r has been handed out; n counts the nested StringReaders
\* (level k reads from rs[k + 1] and has r.curr set iff n > k); leaf is
\* the reader r.currLeaf of the outermost StringReader, 0 for nil.
NewStringReader(st) ==
  [st EXCEPT !.sr = IF st.rs[2].H.Constructed THEN "cons" ELSE "prim",
             !.t = st.rs[2].H.Tag, !.n = 1, !.leaf = 0]

RECURSIVE srNext(_, _)
RECURSIVE srLoop(_, _, _)

\* Faulty variant of srLoop: the tag of a component is not compared with the
\* tag of the string.
srLoopAnyTag(st, k, h) ==
  LET nested(c, h1) ==
        IF c.err = "EOF" THEN srLoop([c.st EXCEPT !.n = k], k, h1)
        ELSE IF c.err # "nil"
          THEN [st |-> [c.st EXCEPT !.n = k], er |-> 0, err |-> c.err, cl |-> 0]
        ELSE [st |-> c.st, er |-> c.er, err |-> "nil", cl |-> c.er]
      descend(s, h1) == nested(srNext([s EXCEPT !.n = Max(@, k + 1)], k + 1), h1)
      child(own) ==
        IF own.err # "nil" THEN [st |-> own.st, er |-> 0, err |-> own.err, cl |-> 0]
        ELSE IF ~own.h.Constructed
          THEN [st |-> own.st, er |-> k + 2, err |-> "nil", cl |-> k + 2]
        ELSE descend(own.st, own.h) IN
  IF st.n = k THEN child(berNext(st, k + 1)) ELSE descend(st, h)

\* The loop of StringReader.next at level k with the local header h, entered
\* with r.currLeaf = nil: [st, er, err, cl]; cl is r.currLeaf at the return.
srLoop(st, k, h) ==
  LET nested(c, h1) ==
        IF c.err = "EOF" THEN srLoop([c.st EXCEPT !.n = k], k, h1)
        ELSE IF c.err # "nil"
          THEN [st |-> [c.st EXCEPT !.n = k], er |-> 0, err |-> c.err, cl |-> 0]
        ELSE IF h1.Tag # st.t
          THEN [st |-> c.st, er |-> 0, err |-> "syntax:nonMatching", cl |-> c.er]
        ELSE [st |-> c.st, er |-> c.er, err |-> "nil", cl |-> c.er]
      descend(s, h1) == nested(srNext([s EXCEPT !.n = Max(@, k + 1)], k + 1), h1)
      child(own) ==
        IF own.err # "nil" THEN [st |-> own.st, er |-> 0, err |-> own.err, cl |-> 0]
        ELSE IF own.h.Tag # st.t
          THEN [st |-> own.st, er |-> 0, err |-> "syntax:nonMatching", cl |-> 0]
        ELSE IF ~own.h.Constructed
          THEN [st |-> own.st, er |-> k + 2, err |-> "nil", cl |-> k + 2]
        ELSE descend(own.st, own.h) IN
  IF st.n = k THEN child(berNext(st, k + 1)) ELSE descend(st, h)

\* StringReader.next at level k: [st, er, err, cl]
srNext(st, k) ==
  IF k = 1 /\ st.sr = "prim"
    THEN [st |-> [st EXCEPT !.sr = "primUsed"], er |-> 2, err |-> "nil", cl |-> 2]
  ELSE IF k = 1 /\ st.sr = "primUsed"
    THEN [st |-> st, er |-> 0, err |-> "EOF", cl |-> 0]
  ELSE srLoop(st, k, Hdr(0, FALSE, 0))

\* The loop of StringReader.Read(p), len(p) = k: [st, data, err]
RECURSIVE strReadLoop(_, _, _, _)
strReadLoop(st, k, data, err) ==
  LET afterNext(r) == strReadLoop([r.st EXCEPT !.leaf = r.cl], k, data, r.err)
      afterRead(r) ==
        IF r.err = "EOF"
          THEN strReadLoop([r.st EXCEPT !.leaf = 0], k, data \o r.data, "nil")
          ELSE strReadLoop(r.st, k, data \o r.data, r.err) IN
  IF ~(Len(data) < k /\ err = "nil") THEN [st |-> st, data |-> data, err |-> err]
  ELSE IF st.leaf = 0 THEN afterNext(srNext(st, 1))
  ELSE afterRead(berRead(st, st.leaf, k - Len(data)))

\* StringReader.Read(p), len(p) = k >= 1
strRead(st, k) == strReadLoop(st, k, <<>>, "nil")

\* The loop of StringReader.ReadByte: [st, b, err, bytes]; bytes are the
\* bytes the loop has taken from the leaves.
RECURSIVE strReadByteLoop(_, _, _, _)
strReadByteLoop(st, b, err, bytes) ==
  LET afterNext(r) == strReadByteLoop([r.st EXCEPT !.leaf = r.cl], b, r.err, bytes)
      afterRead(r) ==
        IF r.err = "EOF"
          THEN strReadByteLoop([r.st EXCEPT !.leaf = 0], r.b, "nil", bytes)
          ELSE strReadByteLoop(r.st, r.b, r.err,
                               IF r.err = "nil" THEN Append(bytes, r.b) ELSE bytes) IN
  IF err # "nil" THEN [st |-> st, b |-> b, err |-> err, bytes |-> bytes]
  ELSE IF st.leaf = 0 THEN afterNext(srNext(st, 1))
  ELSE afterRead(berReadByte(st, st.leaf))

\* StringReader.ReadByte
strReadByte(st) == strReadByteLoop(st, 0, "nil", <<>>)

\* ------------------------------------------- package ber: the state machine

\* Complete BER encodings: the inputs of TestElementReader_Next and
\* TestStringReader_Read (shortened), and nestings of them.
GoodBerTapes ==
  { <<2, 1, 21>>,
    <<48, 128, 2, 1, 21, 0, 0>>,
    <<48, 3, 2, 1, 21, 2, 0>>,
    <<48, 128, 48, 128, 2, 2, 21, 22, 0, 0, 2, 0, 0, 0, 2, 1, 23>>,
    <<48, 6, 48, 4, 2, 2, 21, 22, 2, 1, 23>>,
    <<48, 7, 48, 128, 2, 1, 21, 0, 0, 2, 0>>,
    <<4, 3, 84, 101, 101>>,
    <<51, 7, 19, 2, 84, 101, 19, 1, 115>>,
    <<51, 128, 19, 2, 84, 101, 19, 1, 115, 0, 0>>,
    <<51, 12, 19, 0, 51, 0, 51, 128, 0, 0, 19, 2, 85, 115>>,
    <<51, 11, 51, 6, 51, 4, 19, 2, 84, 101, 19, 1, 115>>,
    <<51, 8, 51, 6, 19, 1, 65, 19, 1, 66>>,
    <<51, 128, 51, 128, 19, 1, 65, 19, 0, 19, 1, 66, 0, 0, 0, 0>>,
    <<51, 4, 12, 2, 84, 101>>,
    <<51, 6, 51, 4, 12, 2, 84, 101>>,
    <<51, 7, 19, 1, 65, 12, 2, 84, 101>>,
    <<51, 128, 51, 5, 19, 1, 65, 44, 0, 0, 0>> }

\* Truncated and malformed encodings.
BadBerTapes ==
  { <<48, 3, 2, 0>>,
    <<48, 128, 48, 0, 0>>,
    <<0, 0>>,
    <<48, 3, 2, 2, 21>>,
    <<48, 5, 2, 128, 21, 0, 0>>,
    <<48, 5, 2, 3, 21>>,
    <<48, 128, 2, 1>>,
    <<48, 2, 2>> }

BerTapes == GoodBerTapes \cup BadBerTapes

\* The last call on a Reader or on the StringReader, and the bytes the
\* StringReader has returned so far (got; preGot before the call; viaByte:
\* ReadByte has been called).
NoBerCall ==
  [op |-> "none", lvl |-> 0, err |-> "nil", h |-> EndOfContents, er |-> FALSE,
   data |-> <<>>, pre |-> 0, post |-> 0, hpos |-> -1, child |-> -1, preErr |-> "nil",
   prim |-> FALSE, cstart |-> -1, len |-> 0, taken |-> <<>>, got |-> <<>>, preGot |-> <<>>,
   viaByte |-> FALSE]

BerCall(op, i, st, err) ==
  [NoBerCall EXCEPT
     !.op = op, !.lvl = i, !.err = err,
     !.pre = ber.pos, !.post = st.pos,
     !.child = IF i > 0 /\ Len(ber.rs) > i THEN ber.rs[i + 1].hstart ELSE -1,
     !.preErr = IF i > 0 THEN ber.rs[i].err ELSE "nil",
     !.prim = i > 0 /\ ~ber.rs[i].H.Constructed,
     !.cstart = IF i > 0 THEN ber.rs[i].cstart ELSE -1,
     !.len = IF i > 0 THEN ber.rs[i].H.Length ELSE 0,
     !.got = blast.got, !.preGot = blast.got, !.viaByte = blast.viaByte]

\* The tag numbers at the boundaries of the short form, of one, two and
\* three base-128 groups, in each class, as a primitive header of length 0.
TagNumbers == {30, 31, 128, MaxTag}

Classes == 0..3

TagHeaders == {Hdr(c * (MaxTag + 1) + n, FALSE, 0) : c \in Classes, n \in TagNumbers}

\* The minimal encoding of a header of class c with the tag number
\* MaxTag + 1, which no asn1.Tag holds.
TooLargeTagBytes(c) ==
  <<c * 64 + 31>> \o vlqBytes(MaxTag + 1, vlqLength(MaxTag + 1) - 1) \o <<0>>

\* The encoder's bytes for the boundary tags, as inputs of the decoder.
TagTapes == {headerBytes(h) : h \in TagHeaders} \cup {TooLargeTagBytes(c) : c \in Classes}

\* The lengths at the boundaries of the short form and of one, two, three
\* and four length bytes.
LengthValues == {0, 127, 128, 255, 256, 65535, 65536, MaxInt}

\* A primitive header with the length l: as the encoder writes it (pad = 0),
\* or in the long form with pad redundant leading zero bytes.
LengthTape(l, pad) ==
  IF pad = 0 THEN headerBytes(Hdr(2, FALSE, l))
  ELSE <<2, 128 + pad + numLengthBytes(l)>> \o [i \in 1..pad |-> 0]
         \o lengthBytes(l, numLengthBytes(l))

\* Headers whose length is MaxInt + 1 or 2^32, plain, padded and after the
\* longest tag, and a length of 127 length bytes that starts with zeros.
TooLargeLengthTapes ==
  { <<2, 132, 128, 0, 0, 0>>, <<2, 133, 0, 128, 0, 0, 0>>, <<2, 133, 1, 0, 0, 0, 0>>,
    <<31, 255, 127, 133, 1, 0, 0, 0, 0>>, <<2, 255, 0, 0, 5, 21>> }

LengthTapes == {LengthTape(l, pad) : l \in LengthValues, pad \in 0..1} \cup TooLargeLengthTapes

\* A run decodes one input or encodes one output; the reader or writer is
\* a byte reader / byte writer itself ("direct") or not ("buffered").
Init ==
  /\ side \in {"dec", "enc"}
  /\ \E m \in {"direct", "buffered"} :
       /\ env = [pulled |-> 0, errs |-> 0, cons |-> 0, mode |-> m]
       /\ w = [out |-> <<>>, errs |-> 0, mode |-> m, resets |-> 0]
  /\ IF side = "dec" THEN tape \in Tapes \cup TagTapes \cup LengthTapes ELSE tape = <<>>
  /\ InitDecoder
  /\ InitEncoder
  /\ ber = NewBerDecoder("seeker")
  /\ blast = NoBerCall

Next ==
  \/ DoReadHeader
  \/ DoPeekHeader
  \/ DoValueRead
  \/ DoValueClose
  \/ DoSkip
  \/ DoWriteHeader
  \/ DoValueWrite
  \/ DoValueWriterClose

Spec == Init /\ [][Next]_vars

\* e.Reset(w) with a new writer w of the same kind; the value writer of the
\* old state is not used again.
DoReset ==
  /\ side = "enc"
  /\ w.resets < MaxResets
  /\ LET e1 == Reset(enc)
         w1 == [w EXCEPT !.out = <<>>, !.resets = @ + 1] IN
     /\ enc' = e1
     /\ w' = w1
     /\ elast' = ECall("reset", EndOfContents, "nil", "nil", FALSE, 0, e1, w1, 0, TRUE, NoEncl)
     /\ eg' = NoHistory(e1, w1, <<>>)
  /\ UNCHANGED <<tape, d, env, last, ref, g, side, ber, blast>>

NextReset == Next \/ DoReset

\* The runs in which the caller may also reset the encoder.
SpecReset == Init /\ [][NextReset]_vars

\* NewDecoder(r) on a reader r that delivers the bytes the underlying writer
\* has received, once the encoder has ended its top-level data values.
DoFeed ==
  /\ side = "enc"
  /\ StackDepth(enc) = 0
  /\ ~enc.val
  /\ side' = "dec"
  /\ tape' = w.out
  /\ UNCHANGED <<env, enc, w, elast, eg, ber, blast>>
  /\ d' = NewDecoder
  /\ ref' = RefOf(d, env)'
  /\ g' = NoReads
  /\ last' = NoCall'

\* An encoder on a writer and a decoder on a reader that never fail.
InitDual ==
  /\ side = "enc"
  /\ tape = <<>>
  /\ \E m \in {"direct", "buffered"} :
       /\ env = [pulled |-> 0, errs |-> MaxErrs, cons |-> 0, mode |-> m]
       /\ w = [out |-> <<>>, errs |-> MaxErrs, mode |-> m, resets |-> 0]
  /\ InitDecoder
  /\ InitEncoder
  /\ ber = NewBerDecoder("seeker")
  /\ blast = NoBerCall

NextDual == Next \/ DoFeed

\* The runs in which a decoder reads what an encoder has written.
SpecDual == InitDual /\ [][NextDual]_vars

\* r.Next() on the root reader or on a reader that Next returned
DoBerNext ==
  LET returned(i, r) ==
        /\ ber' = r.st
        /\ blast' = [BerCall("next", i, r.st, r.err)
                      EXCEPT !.h = r.h, !.er = r.er, !.hpos = r.hpos] IN
  /\ side = "ber" /\ ber.sr = "none"
  /\ \E i \in 1..Len(ber.rs) : returned(i, IF i = 1 THEN decoderNext(ber) ELSE berNext(ber, i))
  /\ UNCHANGED <<tape, d, env, last, ref, g, side, enc, w, elast, eg>>

\* r.Read(p), len(p) in 1..2
DoBerRead ==
  LET returned(i, r) ==
        /\ ber' = r.st
        /\ blast' = [BerCall("read", i, r.st, r.err) EXCEPT !.data = r.data] IN
  /\ side = "ber" /\ ber.sr = "none"
  /\ \E i \in 2..Len(ber.rs), k \in 1..2 : returned(i, berRead(ber, i, k))
  /\ UNCHANGED <<tape, d, env, last, ref, g, side, enc, w, elast, eg>>

\* r.ReadByte()
DoBerReadByte ==
  LET returned(i, r) ==
        /\ ber' = r.st
        /\ blast' = [BerCall("readbyte", i, r.st, r.err)
                      EXCEPT !.data = IF r.err = "nil" THEN <<r.b>> ELSE <<>>] IN
  /\ side = "ber" /\ ber.sr = "none"
  /\ \E i \in 2..Len(ber.rs) : returned(i, berReadByte(ber, i))
  /\ UNCHANGED <<tape, d, env, last, ref, g, side, enc, w, elast, eg>>

\* r.Close()
DoBerClose ==
  LET returned(i, r) ==
        /\ ber' = r.st
        /\ blast' = BerCall("close", i, r.st, r.err) IN
  /\ side = "ber" /\ ber.sr = "none"
  /\ \E i \in 2..Len(ber.rs) : returned(i, berClose(ber, i))
  /\ UNCHANGED <<tape, d, env, last, ref, g, side, enc, w, elast, eg>>

\* NewStringReader(h.Tag, er) right after the first d.Next()
DoNewStringReader ==
  /\ side = "ber" /\ ber.sr = "none"
  /\ Len(ber.rs) = 2
  /\ blast.op = "next" /\ blast.lvl = 1 /\ blast.err = "nil"
  /\ ber' = NewStringReader(ber)
  /\ blast' = BerCall("newsr", 0, ber, "nil")
  /\ UNCHANGED <<tape, d, env, last, ref, g, side, enc, w, elast, eg>>

\* sr.Read(p), len(p) in 1..3
DoStringRead ==
  LET returned(r) ==
        /\ ber' = r.st
        /\ blast' = [BerCall("sread", 0, r.st, r.err)
                      EXCEPT !.data = r.data, !.taken = r.data, !.got = blast.got \o r.data] IN
  /\ side = "ber" /\ ber.sr # "none"
  /\ \E k \in 1..3 : returned(strRead(ber, k))
  /\ UNCHANGED <<tape, d, env, last, ref, g, side, enc, w, elast, eg>>

\* sr.ReadByte()
DoStringReadByte ==
  LET data(r) == IF r.err = "nil" THEN <<r.b>> ELSE <<>>
      returned(r) ==
        /\ ber' = r.st
        /\ blast' = [BerCall("sreadbyte", 0, r.st, r.err)
                      EXCEPT !.data = data(r), !.taken = r.bytes, !.got = blast.got \o data(r),
                             !.viaByte = TRUE] IN
  /\ side = "ber" /\ ber.sr # "none"
  /\ returned(strReadByte(ber))
  /\ UNCHANGED <<tape, d, env, last, ref, g, side, enc, w, elast, eg>>

\* A run of package ber reads one input through the root reader of
\* NewDecoder.
InitBer ==
  /\ side = "ber"
  /\ tape \in BerTapes
  /\ env = [pulled |-> 0, errs |-> 0, cons |-> 0, mode |-> "direct"]
  /\ w = [out |-> <<>>, errs |-> 0, mode |-> "direct", resets |-> 0]
  /\ InitDecoder
  /\ InitEncoder
  /\ \E kind \in SourceKinds : ber = NewBerDecoder(kind)
  /\ blast = NoBerCall

NextBer ==
  \/ DoBerNext
  \/ DoBerRead
  \/ DoBerReadByte
  \/ DoBerClose
  \/ DoNewStringReader
  \/ DoStringRead
  \/ DoStringReadByte

SpecBer == InitBer /\ [][NextBer]_vars

\* A run of package ber on a source that is no byte reader and returns its
\* bytes in chunks: the values of TestDecoder_Buffer, a string, constructed
\* values of definite and of indefinite length, and a truncated value.
InitBuf ==
  /\ side = "ber"
  /\ tape \in { <<2, 1, 1, 2, 1, 2, 0, 0>>,
                <<4, 3, 84, 101, 101, 2, 1, 21>>,
                <<48, 6, 2, 1, 21, 2, 1, 22, 2, 1, 23>>,
                <<48, 6, 48, 128, 2, 0, 0, 0, 2, 1, 22, 2, 1, 23>>,
                <<36, 6, 4, 1, 84, 4, 1, 101, 4, 0, 2, 1, 21>>,
                <<48, 128, 2, 1, 21, 0, 0, 2, 1, 22>>,
                <<48, 128, 0, 0, 2, 1, 21, 2, 1, 22>>,
                <<2, 3, 21>> }
  /\ env = [pulled |-> 0, errs |-> 0, cons |-> 0, mode |-> "direct"]
  /\ w = [out |-> <<>>, errs |-> 0, mode |-> "direct", resets |-> 0]
  /\ InitDecoder
  /\ InitEncoder
  /\ \E c \in {<<1>>, <<2>>, <<3>>, <<1, 2>>, <<DecoderBufSize>>} :
       ber = [NewBerDecoder("reader") EXCEPT !.chunks = c]
  /\ blast = NoBerCall

\* The runs of package ber on a source that is no byte reader.
SpecBuf == InitBuf /\ [][NextBer]_vars

\* ------------------------------------------------------------------ claims

\* The last decoder call is a header call.
HeaderCall == side = "dec" /\ last.op \in {"read", "peek"}

\* The caller-visible result of the last header call equals the result of
\* the error-free ReadHeader at the last commit.
SameAsRef ==
  /\ last.kind = last.ref.kind
  /\ last.err = last.ref.err
  /\ last.h = last.ref.h
  /\ last.off = last.ref.off

\* The last call is a PeekHeader, or the ReadHeader that follows at least one
\* PeekHeader, in a run of header calls without transient errors.
PeekRun ==
  /\ HeaderCall
  /\ last.errs = 0
  /\ ~last.failed
  /\ last.op = "read" => last.peeks >= 1

\* C1: PeekHeader is unobservable.  In a run of k >= 1 PeekHeader calls
\* followed by ReadHeader, with no transient error, every call returns the
\* Header and error a single ReadHeader would have returned, and StackDepth
\* and InputOffset are the same after each peek as before it.
C1_PeekUnobservable ==
  PeekRun =>
    /\ SameAsRef
    /\ last.op = "peek" =>
         /\ last.post.depth = last.pre.depth
         /\ last.post.inOff = last.pre.inOff

\* The last call is the ReadHeader that ends a run of ReadHeader calls of
\* which all earlier ones, and at least one, failed with a transient error.
RetryRun ==
  /\ HeaderCall
  /\ last.op = "read"
  /\ last.kind # "io"
  /\ last.errs >= 1
  /\ last.peeks = 0
  /\ ~last.failed

\* C2: the decoder's retry converges.  The first ReadHeader that does not
\* fail with a transient error returns what an error-free ReadHeader would
\* have returned, leaves StackDepth and InputOffset at the same values and
\* has consumed the same number of input bytes.
C2_DecoderRetryConverges ==
  RetryRun =>
    /\ SameAsRef
    /\ last.val = last.ref.val
    /\ last.post.depth = last.ref.depth
    /\ last.post.inOff = last.ref.inOff
    /\ last.cons = last.ref.cons

\* The last call is the WriteHeader that ends a run of WriteHeader calls
\* with one and the same header of which all earlier ones, and at least one,
\* failed with a transient error.
EncRetryRun ==
  /\ side = "enc"
  /\ elast.op = "whdr"
  /\ elast.kind # "io"
  /\ elast.errs >= 1
  /\ elast.same
  /\ ~elast.failed

\* C3: the encoder's retry converges.  When WriteHeader is repeated with
\* the same header after transient errors and short writes, the call that
\* does not fail succeeds like an error-free WriteHeader, and the output
\* (the bytes the underlying writer accepted, then the bytes in the write
\* buffer) is exactly the output of the error-free run: no header byte is
\* lost, duplicated or reordered, with and without the write buffer.
C3_EncoderRetryConverges ==
  EncRetryRun =>
    /\ elast.kind = "nil"
    /\ elast.ref.kind = "nil"
    /\ elast.val = elast.ref.val
    /\ elast.emitted = elast.ref.emitted
    /\ elast.out = elast.ref.out
    /\ elast.post = elast.ref.obs

\* A three byte header has gone out in three calls: one byte, then a
\* transient error; a second byte, then a transient error; the last byte.
C3_Witness ==
  /\ EncRetryRun
  /\ elast.errs = 2
  /\ elast.h = Hdr(50, FALSE, 0)
  /\ elast.kind = "nil"
  /\ Len(elast.preEmitted) = Len(elast.mark) + 2
  /\ elast.emitted = elast.mark \o <<31, 50, 0>>

\* The fill limit after a header call that read `pulled` bytes from the
\* underlying reader: bufferedReader.fill lowers a positive limit by the
\* bytes it reads, and leaves 0 and -1 alone.
LimitAfter(lim, pulled) ==
  IF env.mode = "direct" \/ lim < 0 THEN lim ELSE Max(lim - pulled, 0)

\* C4 (as the specification states it): when ReadHeader or PeekHeader
\* returns a transient I/O error, StackDepth, every StackIndex entry,
\* InputOffset, DataValueOffset and the fill limit of the buffered reader
\* have the values they had before the call.
C4_Original ==
  (HeaderCall /\ last.kind = "io") => last.post = last.pre

\* C4 (amended): a header call other than the ReadHeader that returns a
\* completely parsed header leaves StackDepth, every StackIndex entry,
\* InputOffset and DataValueOffset as they were; the fill limit is not set
\* anew, it is only lowered by the bytes the buffered reader has read from
\* the underlying reader during the call.
C4_NothingCommitted ==
  (HeaderCall /\ ~(last.op = "read" /\ last.kind = "nil")) =>
    /\ last.post.depth = last.pre.depth
    /\ last.post.hdrs = last.pre.hdrs
    /\ last.post.inOff = last.pre.inOff
    /\ last.post.dvo = last.pre.dvo
    /\ last.post.lim = LimitAfter(last.pre.lim, last.pulled)

\* Inside a top-level data value the buffered reader read a byte and then
\* the underlying reader failed: ReadHeader returned the transient error and
\* the fill limit is lower than before the call.
C4_Witness ==
  /\ HeaderCall
  /\ last.op = "read"
  /\ last.kind = "io"
  /\ env.mode = "buffered"
  /\ last.pre.depth = 1
  /\ last.pulled > 0
  /\ last.post.lim < last.pre.lim

ReturnedEOC ==
  /\ HeaderCall
  /\ last.op = "read"
  /\ last.kind = "nil"
  /\ last.h.Tag = TagEndOfContents

\* C6: every enclosure ReadHeader has opened and not yet closed is one level
\* of the stack; a header with tag 0 that ReadHeader returns is the
\* EndOfContents header, comes without a value reader, closes the innermost
\* open enclosure at the end of its content (the declared length is used up,
\* or the bytes 00 00 were read) and lowers StackDepth by exactly one; and at
\* the end of the content of a definite-length enclosure ReadHeader returns
\* EndOfContents, never a header that follows the enclosure.
C6_EndOfContents ==
  /\ side = "dec" => Len(g.encl) + (IF d.valid THEN 1 ELSE 0) = StackDepth(d)
  /\ ReturnedEOC =>
       /\ last.h = EndOfContents
       /\ ~last.val
       /\ last.post.depth = last.pre.depth - 1
       /\ last.closed # NoEncl
       /\ last.closed.len # LengthIndefinite => last.preRem = 0
       /\ last.closed.len = LengthIndefinite =>
            last.raw = [h |-> EndOfContents, err |-> "nil", size |-> 2]
  /\ (HeaderCall /\ last.op = "read" /\ ~last.preValid
        /\ ~last.preIndef /\ last.preRem = 0) =>
       /\ last.kind = "nil"
       /\ last.h = EndOfContents

\* ReadHeader returned the EndOfContents of an indefinite-length enclosure
\* nested in a definite-length one, from the bytes 00 00.
C6_Witness ==
  /\ ReturnedEOC
  /\ last.closed.len = LengthIndefinite
  /\ last.pre.depth = 2
  /\ last.bound # -1

\* The last call is a WriteHeader(EndOfContents) that succeeded, and every
\* WriteHeader since the last commit was given EndOfContents.
AcceptedEOC ==
  /\ side = "enc"
  /\ elast.op = "whdr"
  /\ elast.h = EndOfContents
  /\ elast.kind = "nil"
  /\ elast.same

\* C7: WriteHeader(EndOfContents), retried or not, adds no byte to the
\* output when the enclosure it closes has a definite length, and adds the
\* two bytes 00 00, once, when the enclosure has the indefinite length.
C7_EndOfContentsBytes ==
  AcceptedEOC =>
    elast.emitted =
      elast.mark \o (IF elast.closed.len = LengthIndefinite THEN <<0, 0>> ELSE <<>>)

\* WriteHeader(EndOfContents) closed an indefinite-length enclosure after a
\* first call that wrote one of the two bytes and failed.
C7_Witness ==
  /\ AcceptedEOC
  /\ elast.closed.len = LengthIndefinite
  /\ elast.errs >= 1
  /\ Len(elast.preEmitted) = Len(elast.mark) + 1

\* C8: when the decoder returns, or the encoder accepts, the EndOfContents
\* of a definite-length enclosure, the encoded sizes of the enclosure's
\* children (header bytes plus content bytes, plus the two end-of-contents
\* bytes of an indefinite-length child) add up to its declared length.
C8_ChildrenFillParent ==
  /\ (ReturnedEOC /\ last.closed.len # LengthIndefinite) =>
       last.closed.sum = last.closed.len
  /\ (side = "enc" /\ elast.op = "whdr" /\ elast.kind = "nil"
        /\ elast.h = EndOfContents /\ elast.closed.len # LengthIndefinite) =>
       elast.closed.sum = elast.closed.len

\* The encoder accepted the EndOfContents of a definite-length enclosure of
\* four bytes that holds an indefinite-length child: 30 04 30 80 00 00.
C8_Witness ==
  /\ side = "enc"
  /\ elast.op = "whdr"
  /\ elast.kind = "nil"
  /\ elast.h = EndOfContents
  /\ elast.closed.len = 4
  /\ elast.closed.sum = 4
  /\ elast.emitted = <<48, 4, 48, 128, 0, 0>>

\* The last call is the first header call since the last commit, a
\* ReadHeader, and the bytes at the input position encode a header with a
\* definite length.
FirstRead ==
  /\ HeaderCall
  /\ last.op = "read"
  /\ last.errs = 0
  /\ last.peeks = 0
  /\ ~last.failed
  /\ ~last.preValid
  /\ last.raw.err = "nil"
  /\ last.raw.h.Length # LengthIndefinite

\* The header at the input position, with its content, is larger than the
\* content that remains of the enclosing data value.
ChildExceeds ==
  /\ FirstRead
  /\ last.preRem > 0
  /\ last.raw.size + last.raw.h.Length > last.preRem

\* C9 (as the specification states it): ReadHeader rejects a child whose
\* header size plus definite length exceeds the remaining content of its
\* parent with the SyntaxError "data value exceeds parent" at the offset of
\* the child's first byte, and does not push the child.
C9_Original ==
  ChildExceeds =>
    /\ last.kind = "syntax"
    /\ last.err = "exceedsParent"
    /\ last.off = last.pre.inOff
    /\ last.post.depth = last.pre.depth

\* C9 (amended): ReadHeader rejects such a child with a SyntaxError at the
\* offset of the child's first byte and does not push it.  The error is
\* "data value exceeds parent" when the header itself fits into the parent
\* and its tag is not the reserved tag 0; it is "truncated data value" when
\* the header bytes alone do not fit, and the end-of-contents error for tag
\* 0.  Below the root, which is unbounded, no header is rejected as
\* exceeding its parent.
C9_ChildExceedsParent ==
  /\ ChildExceeds =>
       /\ last.kind = "syntax"
       /\ last.err = (IF last.raw.size > last.preRem THEN "truncated"
                      ELSE IF last.raw.h.Tag = TagEndOfContents THEN "invalidEOC"
                      ELSE "exceedsParent")
       /\ last.off = last.pre.inOff
       /\ last.post.depth = last.pre.depth
       /\ last.post.hdrs = last.pre.hdrs
  /\ (FirstRead /\ last.preRem = LengthIndefinite) => last.err # "exceedsParent"

\* For the input 30 03 02 02 15 15 the second ReadHeader fails with "data
\* value exceeds parent" at offset 2.
C9_Witness ==
  /\ ChildExceeds
  /\ tape = <<48, 3, 2, 2, 21, 21>>
  /\ last.kind = "syntax"
  /\ last.err = "exceedsParent"
  /\ last.off = 2
  /\ last.post.depth = 1

\* The last call is a first ReadHeader inside an indefinite-length enclosure
\* below a definite-length one, and failed because the content of that
\* ancestor, or the input, ended.
NoEndBeforeBound ==
  /\ HeaderCall
  /\ last.op = "read"
  /\ last.errs = 0
  /\ last.peeks = 0
  /\ ~last.failed
  /\ last.preIndef
  /\ last.bound # -1
  /\ last.kind = "syntax"
  /\ last.err \in {"truncated", "UnexpectedEOF"}

\* The decoder has consumed no byte beyond the end of a definite-length
\* enclosure that is open.
WithinEnclosures ==
  side = "dec" =>
    \A i \in 1..Len(g.encl) :
      g.encl[i].len # LengthIndefinite => env.cons <= g.encl[i].cstart + g.encl[i].len

\* C10 (as the specification states it): an indefinite-length enclosure
\* inside a definite-length one is bounded by that ancestor, and when no
\* end-of-contents occurs before the ancestor's end ReadHeader fails with a
\* SyntaxError at the ancestor's end offset.
C10_Original ==
  /\ WithinEnclosures
  /\ NoEndBeforeBound => last.off = last.bound

\* C10 (amended): the decoder consumes no byte beyond the end of the nearest
\* definite-length ancestor.  When no end-of-contents occurs before that
\* end, ReadHeader fails with a SyntaxError whose offset is not beyond the
\* ancestor's end: "truncated data value" at the first byte of the header
\* that does not fit, having consumed the input up to the ancestor's end, or
\* "unexpected EOF" at the end of the input when the input ends first.
C10_BoundedByAncestor ==
  /\ WithinEnclosures
  /\ NoEndBeforeBound =>
       /\ last.off <= last.bound
       /\ last.err = "truncated" =>
            /\ last.off = last.pre.inOff
            /\ last.cons = last.bound
       /\ last.err = "UnexpectedEOF" =>
            /\ last.off = Len(tape)
            /\ last.cons = Len(tape)

\* For the input 30 06 30 80 02 01 15 the ReadHeader after the INTEGER fails
\* at offset 7, the end of the input; the ancestor ends at offset 8.
C10_Witness ==
  /\ NoEndBeforeBound
  /\ tape = <<48, 6, 48, 128, 2, 1, 21>>
  /\ last.off = 7
  /\ last.bound = 8

\* The last call is a ReadHeader or PeekHeader made after a header call has
\* returned a SyntaxError, and it did not fail with a transient error of the
\* underlying reader.
AfterSyntaxError ==
  /\ HeaderCall
  /\ last.latched # NoSyntaxError
  /\ last.kind # "io"

\* C11: syntax errors latch the decoder.  After ReadHeader has returned a
\* SyntaxError, every later ReadHeader or PeekHeader returns the same error,
\* with the same message and the same byte offset, and StackDepth and
\* InputOffset do not change.
C11_SyntaxErrorLatches ==
  AfterSyntaxError =>
    /\ last.kind = "syntax"
    /\ last.err = last.latched.err
    /\ last.off = last.latched.off
    /\ last.post.depth = last.pre.depth
    /\ last.post.inOff = last.pre.inOff

\* Every top-level TLV of the input from position pos on has a definite
\* length, as far as the input holds well-formed top-level headers.
RECURSIVE DefiniteFrom(_)
DefiniteFrom(pos) ==
  IF pos >= Len(tape) THEN TRUE
  ELSE LET r == RawAt(pos) IN
       IF r.err # "nil" \/ r.h.Tag = TagEndOfContents THEN TRUE
       ELSE IF r.h.Length = LengthIndefinite THEN FALSE
       ELSE IF r.h.Length >= Len(tape) THEN TRUE
       ELSE DefiniteFrom(pos + r.size + r.h.Length)

\* The input position up to which the decoder may have taken bytes from the
\* underlying reader: the end of the top-level TLV being decoded, and between
\* top-level TLVs the end of the header bytes parsed so far.
TopLevelEnd(dd) ==
  IF StackDepth(dd) = 0 THEN dd.offset + dd.peekBytes
  ELSE LET top == IF StackDepth(dd) = 1 THEN dd.curr ELSE dd.stack[2] IN
       IF top.Length > MaxInt - dd.stack[1].Offset THEN MaxInt
       ELSE dd.stack[1].Offset + top.Length

\* C12 as stated: with top-level TLVs of definite length the decoder has
\* taken no byte from the underlying reader beyond the end of the top-level
\* TLV being decoded (between top-level TLVs: beyond the header bytes parsed
\* so far), and between top-level TLVs the fill limit is 0.
C12_NoOverRead ==
  (side = "dec" /\ DefiniteFrom(0)) =>
    /\ env.pulled <= TopLevelEnd(d)
    /\ (env.mode = "buffered" /\ StackDepth(d) = 0) => d.lim = 0

\* The nine bytes of the example: an indefinite-length SEQUENCE holding an
\* indefinite-length SEQUENCE holding INTEGER 21 and one end-of-contents.
NineBytes == <<48, 128, 48, 128, 2, 1, 21, 0, 0>>

\* The same with the end-of-contents of the outer SEQUENCE.
ElevenBytes == <<48, 128, 48, 128, 2, 1, 21, 0, 0, 0, 0>>

\* The input is exhausted: the last call is a ReadHeader that found the end
\* of the input.
Exhausted ==
  /\ side = "dec"
  /\ last.op = "read"
  /\ last.err \in {"EOF", "UnexpectedEOF"}

\* C13 as stated: decoding the nine bytes until the input is exhausted ends
\* with a stack depth of 0 and an input offset of 9.
C13_Original ==
  (tape = NineBytes /\ Exhausted) => StackDepth(d) = 0 /\ InputOffset(d) = 9

\* C13: decoding the nine bytes until the input is exhausted ends inside the
\* outer SEQUENCE, with a stack depth of 1, an input offset of 9 and a
\* SyntaxError for the unexpected end of the input; with the outer
\* end-of-contents appended the decode ends with a stack depth of 0, an
\* input offset of 11 and io.EOF.
C13_NineBytes ==
  /\ (tape = NineBytes /\ Exhausted) =>
        /\ StackDepth(d) = 1
        /\ InputOffset(d) = 9
        /\ last.kind = "syntax" /\ last.err = "UnexpectedEOF" /\ last.off = 9
  /\ (tape = ElevenBytes /\ Exhausted) =>
        /\ StackDepth(d) = 0
        /\ InputOffset(d) = 11
        /\ last.kind = "EOF"

\* The nine bytes are decoded and the next ReadHeader has found the end of
\* the input.
C13_Witness ==
  /\ tape = NineBytes /\ Exhausted
  /\ StackDepth(d) = 1 /\ InputOffset(d) = 9

\* The last call is a ReadHeader or PeekHeader made while the value reader
\* of a primitive data value had not been closed.
HeaderCallOnOpenValue ==
  /\ HeaderCall
  /\ last.preValid
  /\ ~last.pre.hdrs[last.pre.depth].Constructed

\* The last call is a successful Close of the value reader of a primitive
\* data value.
ValueClosed ==
  /\ side = "dec"
  /\ last.op = "vclose"
  /\ last.err = "nil"
  /\ ~last.pre.hdrs[last.pre.depth].Constructed

\* The input position after the data value that was current before the last
\* call: its header and its content.
ValueEnd ==
  last.pre.dvo + RawAt(last.pre.dvo).size + last.pre.hdrs[last.pre.depth].Length

ValueCompleted ==
  /\ side = "enc"
  /\ elast.op = "vwrite"
  /\ elast.n > 0
  /\ elast.err = "nil"
  /\ enc.valn = 0

\* The last call is a Close on the value writer that returned nil.
ValueWriterClosed ==
  /\ side = "enc"
  /\ elast.op = "vclose"
  /\ elast.err = "nil"

\* WriteHeader is rejected because a value writer is open, whatever the header.
RejectsForOpenValue ==
  \A h \in EncHeaders : \A r \in WriteHeader(enc, w, h) : r.err = "notClosed"

\* WriteHeader is not rejected because a value writer is open.
AcceptsHeaders ==
  \A h \in EncHeaders : \A r \in WriteHeader(enc, w, h) : r.err # "notClosed"

DifferentHeader ==
  /\ side = "enc"
  /\ elast.op = "whdr"
  /\ elast.prePeekLen > 0
  /\ elast.h # elast.prePeekHeader

\* The last call has written nothing, neither to the underlying writer nor
\* to the internal write buffer.
WroteNothing ==
  /\ elast.out = elast.preOut
  /\ elast.emitted = elast.preEmitted

\* C16 as stated: a WriteHeader with another header than the one whose bytes
\* remain in the scratch buffer is rejected with "unwritten data after write
\* error" and writes nothing.
C16_Original ==
  DifferentHeader => elast.err = "unwritten" /\ WroteNothing

\* C16: a WriteHeader with another header than the one whose bytes remain in
\* the scratch buffer is rejected with a SyntaxError and writes nothing.  The
\* error is "unwritten data after write error" unless the header is rejected
\* before it is encoded: an end-of-contents that is unexpected at this place,
\* a primitive header of indefinite length, a header that exceeds its parent.
C16_DifferentHeaderRejected ==
  DifferentHeader =>
    /\ elast.kind = "syntax"
    /\ elast.err \in {"unwritten", "unexpectedEOC", "indefPrimitive", "exceedsParent"}
    /\ elast.ref.kind = "nil" => elast.err = "unwritten"
    /\ WroteNothing
    /\ elast.post.depth = elast.pre.depth

\* A different header has been rejected with "unwritten data after write
\* error" while a partly written header was in the scratch buffer.
C16_Witness ==
  /\ DifferentHeader
  /\ elast.err = "unwritten"
  /\ elast.prePeekAt < elast.prePeekLen

\* C17: after any sequence of encoder calls OutputOffset equals the number
\* of header and content bytes emitted so far, those the underlying writer
\* has accepted and those held in the internal write buffer.
C17_OutputOffset ==
  side = "enc" => OutputOffset(enc) = Len(Emitted(enc, w))

\* The last call has closed a top-level data value: a WriteHeader of an
\* end-of-contents or a Close of a value writer that returned nil and left a
\* stack depth of 0.
TopLevelClosed ==
  /\ side = "enc"
  /\ \/ elast.op = "whdr" /\ elast.h = EndOfContents
     \/ elast.op = "vclose"
  /\ elast.err = "nil"
  /\ elast.post.depth = 0
  /\ elast.pre.depth = 1

\* C18: when a call that closes a top-level data value has returned nil,
\* every byte emitted so far has been delivered to the underlying writer and
\* the internal write buffer is empty.
C18_TopLevelFlushed ==
  TopLevelClosed =>
    /\ enc.wbuf = <<>>
    /\ w.out = elast.emitted

\* A top-level data value has been closed through the internal write buffer
\* after a flush had failed.
C18_Witness ==
  /\ TopLevelClosed
  /\ w.mode = "buffered"
  /\ w.errs > 0
  /\ Len(w.out) >= 2

\* The flush of a Close of the value writer of a fully written top-level
\* primitive data value has failed, and the last call is a Close or a Write
\* of no more bytes than remain on the same value writer.
AfterFailedCloseFlush ==
  /\ side = "enc"
  /\ elast.op \in {"vclose", "vwrite"}
  /\ elast.pre.depth = 1
  /\ enc.val
  /\ enc.valn < 0

\* C19: after the flush of a Close of a top-level primitive data value has
\* failed, the caller can trigger further flushes through the same value
\* writer: a Close or Write on it is not refused because the writer is
\* closed.
C19_FlushRetry ==
  AfterFailedCloseFlush => elast.err # "closed"

\* The input position after the complete encoding of the TLV that starts at
\* position pos (TLVEnd), and after the end-of-contents that ends the
\* content starting at pos (ContentEnd); -1 when the input holds no such
\* encoding.
RECURSIVE TLVEnd(_), ContentEnd(_)
TLVEnd(pos) ==
  LET r == RawAt(pos) IN
  IF pos >= Len(tape) \/ r.err # "nil" \/ r.h.Tag = TagEndOfContents THEN -1
  ELSE IF r.h.Length # LengthIndefinite
    THEN IF pos + r.size + r.h.Length <= Len(tape) THEN pos + r.size + r.h.Length ELSE -1
  ELSE ContentEnd(pos + r.size)

ContentEnd(pos) ==
  LET r == RawAt(pos) IN
  IF pos >= Len(tape) \/ r.err # "nil" THEN -1
  ELSE IF r.h.Tag = TagEndOfContents THEN pos + r.size
  ELSE LET next == TLVEnd(pos) IN
       IF next < 0 THEN -1 ELSE ContentEnd(next)

\* The last call is a Skip that returned nil for a constructed data value.
SkippedConstructed ==
  /\ side = "dec"
  /\ last.op = "skip"
  /\ last.kind = "nil"
  /\ last.pre.depth > 0
  /\ last.pre.hdrs[last.pre.depth].Constructed

Entries(s) == Append(s.stack, s.curr)

\* Every entry but the root has the effective length push gives it: the
\* smaller of the length of its header and what remained of its parent, an
\* indefinite length meaning no restriction.
EffectiveLengths(s) ==
  \A i \in 2..Len(Entries(s)) :
    Entries(s)[i].Length = MinLength(Entries(s)[i].Header.Length, Remaining(Entries(s)[i - 1]))

\* Every entry with a definite effective length has consumed between 0 and
\* that length; the others have no bound.
WithinLength(s) ==
  \A i \in 1..Len(Entries(s)) :
    LET en == Entries(s)[i] IN
    IF en.Length = LengthIndefinite THEN Remaining(en) = LengthIndefinite
    ELSE 0 <= en.Offset /\ en.Offset <= en.Length /\ Remaining(en) >= 0

\* C21: every entry pushed by the decoder or the encoder has the effective
\* length min(header length, remaining of the parent), MinLength(42,
\* indefinite) is 42, and every entry with a definite effective length has
\* consumed between 0 and that length, so Remaining is never negative but
\* for the -1 of an entry without a bound.
C21_EffectiveLength ==
  /\ MinLength(42, LengthIndefinite) = 42
  /\ MinLength(LengthIndefinite, 42) = 42
  /\ EffectiveLengths(IF side = "dec" THEN d ELSE enc)
  /\ WithinLength(IF side = "dec" THEN d ELSE enc)

\* An indefinite-length data value inside a definite-length one has been
\* given the remaining length of its parent and has consumed all of it.
C21_Witness ==
  /\ side = "dec"
  /\ StackDepth(d) = 2
  /\ d.curr.Header.Length = LengthIndefinite
  /\ d.curr.Length > 0
  /\ d.curr.Offset = d.curr.Length
  /\ EffectiveLengths(d)

\* The last call has met the end of the input inside an open definite-length
\* enclosure: the enclosure ends beyond the input, the whole input has been
\* consumed, and the call has failed otherwise than with a transient error
\* of the underlying reader or for an open value reader.
EndInsideEnclosure ==
  /\ side = "dec"
  /\ last.bound > Len(tape)
  /\ last.cons = Len(tape)
  /\ last.kind \notin {"nil", "io", "state", "closed"}

\* The end of the input has been met by a ReadHeader or PeekHeader.
HeaderAtEnd == EndInsideEnclosure /\ last.op \in {"read", "peek"}

\* The end of the input has been met by a Read or a Close on the value reader
\* of a primitive data value with content left to read.
ValueAtEnd ==
  /\ EndInsideEnclosure
  /\ last.op \in {"vread", "vclose"}
  /\ d.valid /\ d.valn > 0

FirstHeaderRead ==
  /\ side = "dec"
  /\ last.op = "read"
  /\ last.pre.inOff = 0 /\ last.pre.depth = 0
  /\ last.kind # "io"

\* The number of identifier bytes of the minimal form of tag number n.
MinimalIdentifier(n) == IF n < 31 THEN 1 ELSE IF n < 128 THEN 2 ELSE IF n <= MaxTag THEN 3 ELSE 4

\* C23 as stated: the tag numbers 30, 31, 128, 16383 and 16384 of every
\* class are read back from their encoding without an error.
C23_Original ==
  (FirstHeaderRead /\ tape \in TagTapes) => last.kind = "nil"

\* C23: the headers with the tag numbers 30, 31, 128 and 16383 of every
\* class are written in the minimal short or long form, and ReadHeader reads
\* these bytes back to the identical header; the minimal encoding of the tag
\* number 16384 is rejected with "tag number too large".
C23_TagRoundTrip ==
  FirstHeaderRead =>
    /\ \A h \in TagHeaders :
         tape = headerBytes(h) =>
           /\ last.kind = "nil" /\ last.h = h
           /\ Len(tape) = MinimalIdentifier(h.Tag % (MaxTag + 1)) + 1
           /\ tape[1] % 32 = Min(h.Tag % (MaxTag + 1), 31)
           /\ tape[1] \div 64 = h.Tag \div (MaxTag + 1)
           /\ Len(tape) > 2 => tape[2] # 128
    /\ \A c \in Classes :
         tape = TooLargeTagBytes(c) => last.kind = "syntax" /\ last.err = "tagTooLarge"

\* A private tag with the number 16383 has been read back after a transient
\* read error.
C23_Witness ==
  /\ FirstHeaderRead
  /\ tape = headerBytes(Hdr(3 * (MaxTag + 1) + MaxTag, FALSE, 0))
  /\ last.h = Hdr(3 * (MaxTag + 1) + MaxTag, FALSE, 0)
  /\ last.errs > 0

\* ---- C24

\* A header call on the first header of the input that the reader let through.
FirstHeaderCall ==
  /\ side = "dec"
  /\ last.op \in {"read", "peek"}
  /\ last.pre.inOff = 0 /\ last.pre.depth = 0
  /\ last.kind # "io"

\* C24: a header with a length of 0 .. MaxInt, with or without a redundant
\* leading zero byte, is accepted with exactly that length, and a header
\* whose length exceeds MaxInt fails with "length too large".
C24_ExactLength ==
  FirstHeaderCall =>
    /\ \A l \in LengthValues, pad \in 0..1 :
         tape = LengthTape(l, pad) => last.kind = "nil" /\ last.h = Hdr(2, FALSE, l)
    /\ tape \in TooLargeLengthTapes => last.kind = "syntax" /\ last.err = "lengthTooLarge"

\* The same for the header calls before which the decoder holds no bytes of
\* an earlier call on the same header.
C24_FirstAttempt ==
  (FirstHeaderCall /\ last.peeks = 0 /\ last.errs = 0 /\ ~last.failed) =>
    /\ \A l \in LengthValues, pad \in 0..1 :
         tape = LengthTape(l, pad) => last.kind = "nil" /\ last.h = Hdr(2, FALSE, l)
    /\ tape \in TooLargeLengthTapes => last.kind = "syntax" /\ last.err = "lengthTooLarge"

\* ---- C25

\* The last call went through the bufferedReader and did not call SetLimit.
NoSetLimit ==
  /\ side = "dec" /\ env.mode = "buffered"
  /\ \/ last.op \in {"peek", "vread", "vclose"}
     \/ last.op = "read" /\ last.kind # "nil"

\* C25: a call that does not set the fill limit leaves an unlimited limit
\* unlimited, lowers a positive limit by no more than the bytes it took
\* from the underlying reader, and a Read lowers a positive limit by exactly
\* these bytes.
C25_FillLimit ==
  NoSetLimit =>
    /\ last.pre.lim = LengthIndefinite => last.post.lim = LengthIndefinite
    /\ last.pre.lim >= 0 => last.post.lim >= Max(last.pre.lim - last.pulled, 0)
    /\ (last.pre.lim > 0 /\ last.op = "vread") => last.post.lim = last.pre.lim - last.pulled

\* The part of C25 about an unlimited limit.
C25_Unlimited ==
  (NoSetLimit /\ last.pre.lim = LengthIndefinite) => last.post.lim = LengthIndefinite

\* The part of C25 about the bytes taken by Read.
C25_Decrement ==
  (NoSetLimit /\ last.pre.lim > 0 /\ last.op = "vread") =>
    last.post.lim = last.pre.lim - last.pulled

\* The part of C25 about lowering.
C25_NotLowered ==
  (NoSetLimit /\ last.pre.lim >= 0) => last.post.lim >= Max(last.pre.lim - last.pulled, 0)

\* ---- C26

\* The last call is a WriteHeader of a header other than EndOfContents that
\* succeeded on a reset encoder which has produced no output since.
FirstHeaderAfterReset ==
  /\ side = "enc"
  /\ w.resets > 0
  /\ elast.op = "whdr" /\ elast.kind = "nil"
  /\ elast.h # EndOfContents
  /\ elast.pre.depth = 0 /\ elast.preEmitted = <<>>

\* C26: after Reset, StackDepth and OutputOffset are 0, and the next
\* WriteHeader that succeeds has written the complete encoding of its
\* header to the new writer.
C26_ResetLikeNew ==
  /\ (side = "enc" /\ elast.op = "reset") => elast.post.depth = 0 /\ elast.post.out = 0
  /\ FirstHeaderAfterReset => elast.emitted = headerBytes(elast.h)

\* The part of C26 about StackDepth alone.
C26_StackDepth ==
  (side = "enc" /\ elast.op = "reset") => elast.post.depth = 0

\* ---------------------------------------------------------------- C27

\* The call was made on a primitive reader of a complete, well-formed input.
ChildReadCall ==
  /\ tape \in GoodBerTapes
  /\ blast.op \in {"read", "readbyte"}
  /\ blast.prim

\* The call was r.Next() on a reader of a complete, well-formed input whose
\* previous child was still current.
NextOverChild ==
  /\ tape \in GoodBerTapes
  /\ blast.op = "next"
  /\ blast.child >= 0

\* C27 (first half): on well-formed input a child Reader returns only bytes
\* of its own content octets, in order, and returns EOF exactly when it
\* stands at its value boundary.
C27_ChildBoundary ==
  ChildReadCall =>
    /\ blast.err \in {"nil", "EOF"}
    /\ blast.cstart <= blast.pre
    /\ blast.post <= blast.cstart + blast.len
    /\ blast.data = SubSeq(tape, blast.pre + 1, blast.post)
    /\ (blast.err = "EOF") <=> (blast.pre = blast.cstart + blast.len)
    /\ (blast.err = "EOF") => blast.data = <<>>

\* C27 (second half): however much of the child was consumed, the parent's
\* next call to Next continues right after the child's complete encoding:
\* it returns the header that starts there, or EOF if the parent ends there.
C27_NextAfterChild ==
  NextOverChild =>
    LET end == TLVEnd(blast.child) IN
    /\ blast.err \in {"nil", "EOF"}
    /\ blast.err = "nil" =>
         /\ blast.hpos = end
         /\ blast.h = RawAt(end).h
    /\ blast.err = "EOF" =>
         /\ blast.post \in {end, end + 2}
         /\ blast.post = end + 2 => SubSeq(tape, end + 1, end + 2) = <<0, 0>>

\* A partially consumed definite child, a child of which nothing was read
\* and an indefinite child were skipped by the parent's Next.
C27_PartialChild ==
  /\ NextOverChild
  /\ blast.err = "nil"
  /\ RawAt(blast.child).h.Length > 1
  /\ blast.pre > TLVEnd(blast.child) - RawAt(blast.child).h.Length
  /\ blast.pre < TLVEnd(blast.child)

\* C27: a child Reader stays inside its content octets and the parent's
\* next call to Next continues right after the child's complete encoding.
C27_ChildReader == C27_ChildBoundary /\ C27_NextAfterChild

C27_IndefiniteChild ==
  /\ NextOverChild
  /\ blast.err = "nil"
  /\ RawAt(blast.child).h.Length = LengthIndefinite
  /\ blast.pre < TLVEnd(blast.child) - 2

C27_EOFAtBoundary ==
  /\ ChildReadCall
  /\ blast.err = "EOF"
  /\ blast.len > 0

\* ---------------------------------------------------------------- C28

\* The call was r.Next() on a constructed reader that had already failed
\* with the error blast.preErr.
NextAfterError ==
  /\ blast.op = "next"
  /\ ~blast.prim
  /\ blast.preErr # "nil"

\* C28: once Next has hit a fatal error, every later call of Next on that
\* reader returns the same error, returns no reader, consumes no byte of
\* the source and leaves the error in place.
C28_Latched ==
  NextAfterError =>
    /\ blast.err = blast.preErr
    /\ ~blast.er
    /\ blast.post = blast.pre
    /\ Len(ber.rs) = blast.lvl
    /\ ber.rs[blast.lvl].err = blast.preErr

\* Next was called again after a truncated child header, and after a
\* failing discard of the previous child.
C28_AfterTruncatedHeader ==
  /\ NextAfterError
  /\ blast.preErr = "syntax:decodingChild"
  /\ blast.pre = Len(tape)

C28_AfterMalformedHeader ==
  /\ NextAfterError
  /\ blast.preErr = "syntax:primitiveIndefinite"
  /\ blast.pre < Len(tape)

\* ---------------------------------------------------------------- C29

\* The string the encoding at pos carries: the content of a primitive
\* encoding, the concatenation of the strings of the components of a
\* constructed one.  ComponentStrings(pos, end) concatenates the components
\* from pos to end, or to the end-of-contents octets if end = -1.
RECURSIVE StringAt(_)
RECURSIVE ComponentStrings(_, _)
StringAt(pos) ==
  LET r == RawAt(pos) IN
  IF ~r.h.Constructed
    THEN SubSeq(tape, pos + r.size + 1, pos + r.size + r.h.Length)
  ELSE ComponentStrings(pos + r.size,
                        IF r.h.Length = LengthIndefinite THEN -1
                        ELSE pos + r.size + r.h.Length)

ComponentStrings(pos, end) ==
  IF pos = end \/ pos >= Len(tape) THEN <<>>
  ELSE IF end = -1 /\ RawAt(pos).h = EndOfContents THEN <<>>
  ELSE StringAt(pos) \o ComponentStrings(TLVEnd(pos), end)

\* Every component of the encoding at pos, at every depth, carries tag t.
RECURSIVE TagsMatch(_, _)
RECURSIVE ComponentTagsMatch(_, _, _)
TagsMatch(pos, t) ==
  LET r == RawAt(pos) IN
  /\ r.h.Tag = t
  /\ r.h.Constructed =>
       ComponentTagsMatch(pos + r.size,
                          IF r.h.Length = LengthIndefinite THEN -1
                          ELSE pos + r.size + r.h.Length, t)

ComponentTagsMatch(pos, end, t) ==
  IF pos = end \/ pos >= Len(tape) THEN TRUE
  ELSE IF end = -1 /\ RawAt(pos).h = EndOfContents THEN TRUE
  ELSE TagsMatch(pos, t) /\ ComponentTagsMatch(TLVEnd(pos), end, t)

\* s is an initial part of t
IsPrefixOf(s, t) == Len(s) <= Len(t) /\ s = SubSeq(t, 1, Len(s))

\* The call was Read on a StringReader over a complete string encoding whose
\* components all carry the outer tag, and only Read has been called.
StringReadCall ==
  /\ tape \in GoodBerTapes
  /\ blast.op = "sread"
  /\ ~blast.viaByte
  /\ TagsMatch(0, RawAt(0).h.Tag)

\* C29: Read on a StringReader returns the contents of the primitive leaves
\* in wire order, and EOF once all of them have been returned.
C29_Reassembled ==
  StringReadCall =>
    /\ blast.err \in {"nil", "EOF"}
    /\ IsPrefixOf(blast.got, StringAt(0))
    /\ blast.err = "EOF" => blast.got = StringAt(0)
    /\ blast.err = "nil" => blast.data # <<>>

\* The same for the strings whose nested levels hold at most one component,
\* as in TestStringReader_Read.
RECURSIVE NestedSingle(_, _)
RECURSIVE AllNestedSingle(_, _)
NestedSingle(pos, nested) ==
  LET r == RawAt(pos)
      first == pos + r.size
      end == TLVEnd(pos) - (IF r.h.Length = LengthIndefinite THEN 2 ELSE 0) IN
  r.h.Constructed =>
    IF nested THEN first = end \/ (TLVEnd(first) = end /\ NestedSingle(first, TRUE))
    ELSE AllNestedSingle(first, end)

AllNestedSingle(pos, end) ==
  pos = end \/ (NestedSingle(pos, TRUE) /\ AllNestedSingle(TLVEnd(pos), end))

C29_SingleComponents ==
  (StringReadCall /\ NestedSingle(0, FALSE)) =>
    /\ blast.err \in {"nil", "EOF"}
    /\ IsPrefixOf(blast.got, StringAt(0))
    /\ blast.err = "EOF" => blast.got = StringAt(0)

\* ---------------------------------------------------------------- C30

\* The call was ReadByte on a StringReader over a complete string encoding
\* whose components all carry the outer tag.
StringReadByteCall ==
  /\ tape \in GoodBerTapes
  /\ blast.op = "sreadbyte"
  /\ TagsMatch(0, RawAt(0).h.Tag)
  /\ IsPrefixOf(blast.preGot, StringAt(0))

\* C30: a successful ReadByte returns the next byte of the string and takes
\* only that byte from the leaves; ReadByte returns EOF only when the whole
\* string has been returned.
C30_SingleByte ==
  StringReadByteCall =>
    /\ blast.err = "nil" =>
         /\ Len(blast.preGot) < Len(StringAt(0))
         /\ blast.data = <<StringAt(0)[Len(blast.preGot) + 1]>>
         /\ blast.taken = blast.data
    /\ blast.err = "EOF" => blast.preGot = StringAt(0)

\* ReadByte never returns a byte: no call on any input returns without an
\* error.
C30_NeverSucceeds == blast.op = "sreadbyte" => blast.err # "nil"

\* ReadByte returned EOF after it had taken bytes from a leaf.
C30_BytesLost ==
  /\ StringReadByteCall
  /\ blast.err = "EOF"
  /\ blast.taken # <<>>

\* ---------------------------------------------------------------- C31

\* The position of the header of the first component, in wire order and at
\* any depth, of the components from pos to end (to the end-of-contents
\* octets if end = -1) whose tag differs from t; -1 if there is none.
RECURSIVE FirstMismatch(_, _, _)
FirstMismatch(pos, end, t) ==
  IF pos = end \/ pos >= Len(tape) THEN -1
  ELSE LET r == RawAt(pos)
           inner == IF r.h.Constructed
                      THEN FirstMismatch(pos + r.size,
                                         IF r.h.Length = LengthIndefinite THEN -1
                                         ELSE pos + r.size + r.h.Length, t)
                      ELSE -1 IN
       IF end = -1 /\ r.h = EndOfContents THEN -1
       ELSE IF r.h.Tag # t THEN pos
       ELSE IF inner >= 0 THEN inner
       ELSE FirstMismatch(TLVEnd(pos), end, t)

\* The first component of the string at position 0 that does not carry the
\* tag of the string.
MismatchAt ==
  LET r == RawAt(0) IN
  IF ~r.h.Constructed THEN -1
  ELSE FirstMismatch(r.size, IF r.h.Length = LengthIndefinite THEN -1 ELSE r.size + r.h.Length,
                     r.h.Tag)

\* The call on the StringReader has read the header of a component whose
\* tag differs from the tag of the string.
ReachedMismatch ==
  /\ tape \in GoodBerTapes
  /\ blast.op \in {"sread", "sreadbyte"}
  /\ MismatchAt >= 0
  /\ blast.pre <= MismatchAt
  /\ blast.post > MismatchAt

\* C31: the call of Read or ReadByte that reaches a component, at any depth,
\* whose tag differs from the tag of the string fails with the SyntaxError
\* "non-matching encoding", and reads nothing beyond the header of that
\* component.
C31_NonMatching ==
  ReachedMismatch =>
    /\ blast.err = "syntax:nonMatching"
    /\ blast.post = MismatchAt + RawAt(MismatchAt).size

\* The mismatching component was nested in a constructed component.
C31_Witness ==
  /\ ReachedMismatch
  /\ blast.op = "sread"
  /\ MismatchAt > RawAt(0).size
  /\ RawAt(RawAt(0).size).h.Constructed

\* ------------------------------------------------------------------ C40

\* The decoder's retry buffer: 0 <= peekAt <= peekLen <= len(peekBuf) while
\* the buffer holds bytes. ReadHeader empties it (peekLen = 0) and leaves
\* peekAt, which PeekHeader sets to 0 before the next access.
DecoderPeekInBounds ==
  /\ 0 <= d.peekAt /\ d.peekAt <= PeekBufLen
  /\ 0 <= d.peekLen /\ d.peekLen <= PeekBufLen
  /\ d.peekLen > 0 => d.peekAt <= d.peekLen

\* The encoder's scratch buffer: 0 <= peekAt <= peekLen <= len(peekBuf).
EncoderPeekInBounds ==
  /\ 0 <= enc.peekAt
  /\ enc.peekAt <= enc.peekLen
  /\ enc.peekLen <= ScratchLen

\* C40: the fixed-size retry buffers are never indexed out of bounds: the
\* decoder keeps 0 <= peekAt <= peekLen <= 14 for every input and every
\* interleaving of PeekHeader, ReadHeader and retries, and the encoder keeps
\* 0 <= peekAt <= peekLen <= 12 for every header.
C40_BuffersInBounds == DecoderPeekInBounds /\ EncoderPeekInBounds

\* The decoder's half of C40 on its own.
C40_DecoderInBounds == DecoderPeekInBounds

\* The encoder's half of C40 on its own.
C40_EncoderInBounds == EncoderPeekInBounds

\* A header of nine bytes (the longest a host with 32-bit ints stores) is
\* held in the decoder's retry buffer.
C40_DecoderFull == side = "dec" /\ d.peekLen >= 9

\* The encoder holds a partly written header in its scratch buffer.
C40_EncoderPending == side = "enc" /\ enc.peekAt > 0 /\ enc.peekAt < enc.peekLen

\* ------------------------------------------------------------------ C38

\* The bytes emitted since the last committed header or value.
PendingBytes(c) == SubSeq(c.emitted, Len(c.mark) + 1, Len(c.emitted))

\* The bytes header h stands for where call c was made: the end of a
\* definite-length data value is not encoded.
EncodingAt(c, h) ==
  IF h = EndOfContents /\ c.pre.hdrs[c.pre.depth].Length # LengthIndefinite
    THEN <<>> ELSE headerBytes(h)

\* C38: after any sequence of WriteHeader calls (successful, failed and
\* retried, or rejected) the bytes emitted so far are the complete encodings
\* of the committed headers and values followed by a prefix of at most one
\* pending header: a WriteHeader that succeeds has added exactly the encoding
\* of its header to the committed bytes, and one that fails leaves a prefix of
\* the encoding of one header after them.
C38_OutputIntegrity ==
  elast.op = "whdr" =>
    /\ IsPrefixOf(elast.mark, elast.emitted)
    /\ IF elast.kind = "nil"
         THEN PendingBytes(elast) = EncodingAt(elast, elast.h)
         ELSE \E h \in EncHeaders : IsPrefixOf(PendingBytes(elast), EncodingAt(elast, h))

\* As C38_OutputIntegrity, for the runs in which no call was rejected while
\* bytes of a header were pending: the pending bytes are a prefix of the
\* header that is retried.
C38_WithoutRejection ==
  (elast.op = "whdr" /\ ~elast.failed /\ (elast.kind = "io" \/ elast.kind = "nil")) =>
    /\ IsPrefixOf(elast.mark, elast.emitted)
    /\ IF elast.kind = "nil"
         THEN PendingBytes(elast) = EncodingAt(elast, elast.h)
         ELSE IsPrefixOf(PendingBytes(elast), EncodingAt(elast, elast.h))

\* ------------------------------------------------------------------ C39

\* The decoder has returned header h at input offset off and stack depth
\* depth, with its content starting at input offset cstart: the encoder was
\* given h at that offset and depth, and the content bytes its value writer
\* accepted are the ones that follow the header in the input.
Logged(h, off, depth, cstart) ==
  \E i \in 1..Len(eg.log) :
    /\ eg.log[i].h = h
    /\ eg.log[i].at = off
    /\ eg.log[i].depth = depth
    /\ (~h.Constructed /\ h # EndOfContents) =>
         /\ Len(eg.log[i].data) = h.Length
         /\ SubSeq(tape, cstart + 1, cstart + h.Length) = eg.log[i].data

\* C39: encoder and decoder are dual.  A decoder fed with the bytes of an
\* encoder that has ended its top-level data values returns no syntax error;
\* every header it returns is the header the encoder was given at that offset
\* and depth (an end-of-contents exactly where the encoder was given one),
\* with the same primitive content; and it reports the end of the input at
\* stack depth 0 with InputOffset() equal to the encoder's OutputOffset().
\* The calls are those made while no primitive data value is open and no
\* peeked header is waiting to be read.
C39_Dual ==
  (/\ side = "dec"
   /\ last.op \in {"read", "peek", "skip"}
   /\ last.peeks = 0
   /\ last.pre.hdrs[last.pre.depth].Constructed) =>
    /\ last.kind \in {"nil", "EOF"}
    /\ (last.op # "skip" /\ last.kind = "nil") =>
         Logged(last.h, last.pre.inOff, last.pre.depth, last.cons)
    /\ last.kind = "EOF" =>
         /\ StackDepth(d) = 0
         /\ InputOffset(d) = OutputOffset(enc)
         /\ InputOffset(d) = Len(tape)

\* A decoder has read a nested encoding to its end: the encoder was given an
\* indefinite-length data value holding a primitive one and their
\* end-of-contents, and the decoder has reported the end of the input.
C39_Witness ==
  /\ side = "dec"
  /\ last.op = "read"
  /\ last.kind = "EOF"
  /\ Len(eg.log) >= 3
  /\ eg.log[1].h.Length = LengthIndefinite
  /\ \E i \in 1..Len(eg.log) : ~eg.log[i].h.Constructed /\ eg.log[i].h.Length > 0
  /\ eg.log[Len(eg.log)].h = EndOfContents

\* ------------------------------------------- package ber: the value codecs

\* The native integer types int8, uint8, int16 and uint16: size is
\* reflect.Type.Size().
IntTypes == {[signed |-> s, size |-> n] : s \in BOOLEAN, n \in {1, 2}}

\* The values of an integer type at the boundaries of one and two content
\* bytes, and the values of TestIntCodec that the type holds.
IntValues(typ) ==
  LET half == IF typ.size = 1 THEN 128 ELSE 32768 IN
  {v \in {-32768, -32767, -723, -258, -257, -256, -255, -130, -129, -128, -127, -2, -1,
          0, 1, 2, 126, 127, 128, 129, 254, 255, 256, 257, 723, 32767, 32768, 65535} :
     IF typ.signed THEN -half <= v /\ v < half ELSE 0 <= v /\ v < 2 * half}

\* intCodec.BerEncode of the value v: the length of the header and the
\* content bytes.  bs[1:] holds uint64(v) in big-endian order.
intBerEncode(typ, v) ==
  LET RECURSIVE PutUint64(_, _)
      PutUint64(x, n) == IF n = 0 THEN <<>> ELSE PutUint64(x \div 256, n - 1) \o <<x % 256>>
      Len64(b) ==
        IF \A i \in 1..8 : b[i] = 0 THEN 0
        ELSE LET i == CHOOSE i \in 1..8 : b[i] # 0 /\ \A j \in 1..(i - 1) : b[j] = 0 IN
             8 * (8 - i) + BitsLen(b[i])
      length(bs) ==
        LET l0 == (Len64(bs) + 8 - 1) \div 8
            l == IF l0 = 0 THEN 1 ELSE l0 IN
        IF bs[1] >= 128
          THEN IF typ.signed
                 THEN l - (64 - Len64([i \in 1..8 |-> 255 - bs[i]])) \div 8
                 ELSE l + 1
          ELSE l
      encoded(bs, l) == [Length |-> l, data |-> SubSeq(<<0>> \o bs, 9 - l + 1, 9)]
      sized(bs) == encoded(bs, length(bs)) IN
  sized(PutUint64(v, 8))

\* intCodec.BerDecode of the content bytes c: the error and the value stored.
\* val&0xff80 is 0, 0xff80 or 0x0080 when (val / 128) % 512 is 0, 511 or 1.
intBerDecode(typ, c) ==
  LET RECURSIVE loop(_, _, _)
      loop(read, val, size) ==
        IF read < Len(c) /\ read < size
          THEN LET v2 == val * 256 + c[read + 1]
                   m == (v2 \div 128) % 512 IN
               IF (read + 1 = 2 /\ m = 0) \/ m = 511
                 THEN [err |-> "integer not minimally-encoded", val |-> 0]
               ELSE loop(read + 1, v2,
                         IF read + 1 = 2 /\ m = 1 /\ ~typ.signed THEN size + 1 ELSE size)
        ELSE IF read < Len(c) THEN [err |-> "integer too large", val |-> 0]
        ELSE IF typ.signed
          THEN LET top == IF read = 1 THEN 128 ELSE IF read = 2 THEN 32768 ELSE 8388608 IN
               [err |-> "nil", val |-> IF val >= top THEN val - 2 * top ELSE val]
        ELSE [err |-> "nil", val |-> val % (IF typ.size = 1 THEN 256 ELSE 65536)] IN
  IF Len(c) = 0 THEN [err |-> "empty integer", val |-> 0]
  ELSE IF c[1] >= 128 /\ ~typ.signed THEN [err |-> "integer is signed", val |-> 0]
  ELSE loop(1, c[1], typ.size)

\* The content bytes given to the decoders of the codecs: up to three bytes
\* with the values at which a sign bit or a leading byte changes.
CodecContents ==
  LET B == {0, 1, 127, 128, 255} IN
  {<<>>} \cup {<<a>> : a \in B} \cup {<<a, b>> : a, b \in B} \cup {<<a, b, c>> : a, b, c \in B}

\* Marshal of a native integer: intCodec.BerEncode
DoIntEncode ==
  /\ side = "codec" /\ blast.op = "none"
  /\ \E typ \in IntTypes : \E v \in IntValues(typ) :
       blast' = [op |-> "intenc", typ |-> typ, v |-> v, data |-> intBerEncode(typ, v).data]
  /\ UNCHANGED <<tape, d, env, last, ref, g, side, enc, w, elast, eg, ber>>

\* Unmarshal into a native integer: intCodec.BerDecode of given content
\* bytes, or of the bytes that the preceding Marshal of the same type wrote
\* (op "intrt").
DoIntDecode ==
  /\ side = "codec"
  /\ \/ /\ blast.op = "none"
        /\ \E typ \in IntTypes, c \in CodecContents :
             blast' = [op |-> "intdec", typ |-> typ, data |-> c, r |-> intBerDecode(typ, c)]
     \/ /\ blast.op = "intenc"
        /\ blast' = [op |-> "intrt", typ |-> blast.typ, v |-> blast.v, data |-> blast.data,
                     r |-> intBerDecode(blast.typ, blast.data)]
  /\ UNCHANGED <<tape, d, env, last, ref, g, side, enc, w, elast, eg, ber>>

\* oidCodec.BerEncode of the arcs val: the error, or the content bytes (the
\* base-128 bytes of val[0]*40 + val[1] and of each further arc).
oidBerEncode(val) ==
  LET RECURSIVE base128IntLength(_)
      base128IntLength(n) == IF n < 128 THEN 1 ELSE 1 + base128IntLength(n \div 128)
      RECURSIVE shr(_, _)
      shr(x, bits) == IF bits = 0 THEN x ELSE shr(x \div 128, bits - 7)
      writeBase128Int(i) ==
        LET l == base128IntLength(i) IN
        [k \in 1..l |-> (shr(i, (l - k) * 7) % 128) + (IF l - k # 0 THEN 128 ELSE 0)]
      RECURSIVE rel(_)
      rel(k) == IF k > Len(val) THEN <<>> ELSE writeBase128Int(val[k]) \o rel(k + 1) IN
  IF Len(val) < 2 \/ val[1] > 2 \/ (val[1] < 2 /\ val[2] > 40)
    THEN [err |-> "invalid asn1.ObjectIdentifier", data |-> <<>>]
  ELSE [err |-> "nil", data |-> writeBase128Int(val[1] * 40 + val[2]) \o rel(3)]

\* Marshal of an asn1.ObjectIdentifier: oidCodec.BerEncode.  The values are
\* those of TestObjectIdentifierCodec and their neighbours.
DoOidEncode ==
  LET Values ==
        {<<>>, <<1>>, <<2>>}
          \cup {<<a, b>> \o t : a \in 0..3, b \in {0, 2, 39, 40, 41, 42, 47, 48, 128},
                                t \in {<<>>, <<840>>, <<840, 113549>>}} IN
  /\ side = "codec" /\ blast.op = "none"
  /\ \E val \in Values : blast' = [op |-> "oidenc", val |-> val, r |-> oidBerEncode(val)]
  /\ UNCHANGED <<tape, d, env, last, ref, g, side, enc, w, elast, eg, ber>>

\* SequenceOf(val) for a struct (its fields in declaration order, each
\* exported or not, ignored by `asn1:"-"` or not) or a slice of values that
\* have an encoder: the error and the values of the sequence returned.
\* internal.StructFields yields the exported fields that are not ignored.
SequenceOf(val) ==
  LET StructFields == SelectSeq(val.elems, LAMBDA f : ~(f.ignore \/ ~f.exported))
      \* e := &Sequence{}; e.append(...) for each element
      e(elems) == [i \in 1..Len(elems) |-> elems[i].val]
      s == <<>> IN
  IF val.kind = "struct"
    THEN \* the loop fills e from StructFields; the function returns s
         LET filled == e(StructFields) IN [err |-> "nil", values |-> s]
  ELSE IF val.kind = "slice" THEN [err |-> "nil", values |-> e(val.elems)]
  ELSE [err |-> "UnsupportedTypeError", values |-> <<>>]

\* SequenceOf on a struct or a slice of up to two elements, or on a value of
\* another kind
DoSequenceOf ==
  LET Elems == [exported : BOOLEAN, ignore : BOOLEAN, val : {21, 22}]
      Seqs(S) == {<<>>} \cup {<<a>> : a \in S} \cup {<<a, b>> : a, b \in S}
      Values ==
        {[kind |-> "struct", elems |-> fs] : fs \in Seqs(Elems)}
          \cup {[kind |-> "slice", elems |-> es] :
                  es \in Seqs({f \in Elems : f.exported /\ ~f.ignore})}
          \cup {[kind |-> "int", elems |-> <<>>]} IN
  /\ side = "codec" /\ blast.op = "none"
  /\ \E val \in Values : blast' = [op |-> "seqof", val |-> val, r |-> SequenceOf(val)]
  /\ UNCHANGED <<tape, d, env, last, ref, g, side, enc, w, elast, eg, ber>>

\* Faulty variant of makeDecoder: the tag of the header is not compared with
\* the tag of the field.
makeDecoderUnmatched(tag, f) == "nil"

\* makeDecoder(tag, v, params) for an int field f whose effective tag is
\* f.tag (params.Tag, or INTEGER by intCodec.BerMatch): the error.
makeDecoder(tag, f) == IF tag # f.tag THEN "errTagMismatch" ELSE "nil"

\* structDecoder.BerDecode on the reader rs[2] of a SEQUENCE for a struct
\* with the given fields (int fields with a tag and the optional flag, or
\* asn1.Extensible): the state of the readers, the error, the values of the
\* fields and, for each field reached, the child that was offered to it
\* (its tag and the offset of its header, -1 for none) and the input
\* offsets before and after.
structBerDecode(st0, fields) ==
  LET RECURSIVE drain(_, _)
      \* for err == nil { if _, er, err = r.Next(); err == nil { err = er.Close() } }
      closed(c) == drain(c.st, c.err)
      afterNext(r) == IF r.err = "nil" THEN closed(berClose(r.st, 3)) ELSE drain(r.st, r.err)
      drain(st, err) == IF err # "nil" THEN [st |-> st, err |-> err] ELSE afterNext(berNext(st, 2))
      return(s, err) == [st |-> s.st, err |-> err, vals |-> s.vals, log |-> s.log]
      logged(s, k, st) ==
        Append(s.log, [k |-> k,
                       tag |-> IF s.err = "nil" THEN s.h.Tag ELSE -1,
                       child |-> IF s.err = "nil" THEN s.st.rs[3].hstart ELSE -1,
                       pre |-> s.st.pos, post |-> st.pos])
      finish(s) ==
        LET done(c) ==
              IF c.err # "EOF" THEN return([s EXCEPT !.st = c.st], c.err)
              ELSE IF s.err = "nil"
                THEN return([s EXCEPT !.st = c.st], "structural:too many values")
              ELSE return([s EXCEPT !.st = c.st], "nil") IN
        IF s.err = "nil" THEN done(closed(berClose(s.st, 3)))
        ELSE done([st |-> s.st, err |-> s.err])
      RECURSIVE loop(_, _)
      loop(k, s) ==
        LET f == fields[k]
            stop(st, err) == return([s EXCEPT !.st = st, !.log = logged(s, k, st)], err)
            extended(c) == loop(k + 1, [s EXCEPT !.st = c.st, !.err = c.err,
                                                 !.log = logged(s, k, c.st)])
            next(v, n) == loop(k + 1, [st |-> n.st, h |-> n.h, err |-> n.err,
                                       vals |-> [s.vals EXCEPT ![k] = v],
                                       log |-> logged(s, k, n.st)])
            closedValue(v, c) ==
              IF c.err = "nil" THEN next(v, berNext(c.st, 2))
              ELSE stop(c.st, c.err)
            decoded(rd, dv) ==
              IF dv.err = "nil" THEN closedValue(dv.val, berClose(rd.st, 3))
              ELSE stop(rd.st, dv.err)
            read(rd) ==
              IF rd.err \notin {"nil", "EOF"} THEN stop(rd.st, rd.err)
              ELSE decoded(rd, intBerDecode([signed |-> TRUE, size |-> 8], rd.data)) IN
        IF k > Len(fields) THEN finish(s)
        ELSE IF s.err # "nil"
          THEN IF s.err # "EOF" THEN stop(s.st, s.err)
               ELSE IF ~f.optional THEN stop(s.st, "structural:not enough values")
               ELSE loop(k + 1, [s EXCEPT !.log = logged(s, k, s.st)])
        ELSE IF f.ext THEN extended(closed(berClose(s.st, 3)))
        ELSE IF makeDecoder(s.h.Tag, f) = "nil"
          THEN read(IF s.h.Length = 0 /\ ~s.h.Constructed
                      THEN [st |-> s.st, data |-> <<>>, err |-> "nil"]
                      ELSE berRead(s.st, 3, s.h.Length))
        ELSE IF f.optional THEN loop(k + 1, [s EXCEPT !.log = logged(s, k, s.st)])
        ELSE stop(s.st, "structural:tag does not match")
      first(n) == loop(1, [st |-> n.st, h |-> n.h, err |-> n.err,
                           vals |-> [k \in 1..Len(fields) |-> 0], log |-> <<>>]) IN
  first(berNext(st0, 2))

\* The inputs of Unmarshal into a struct: the SEQUENCE encodings of
\* TestUnmarshal_Struct with zero to three INTEGER children, encodings with
\* children tagged [0] and [1], the indefinite form, a constructed and a
\* truncated child, and the non-constructed encoding.
StructTapes ==
  { <<48, 0>>,
    <<48, 3, 2, 1, 1>>,
    <<48, 6, 2, 1, 1, 2, 1, 2>>,
    <<48, 9, 2, 1, 1, 2, 1, 2, 2, 1, 3>>,
    <<48, 128, 2, 1, 1, 2, 1, 2, 0, 0>>,
    <<48, 6, 128, 1, 5, 2, 1, 1>>,
    <<48, 6, 129, 1, 7, 2, 1, 1>>,
    <<48, 9, 128, 1, 5, 129, 1, 7, 2, 1, 1>>,
    <<48, 7, 2, 1, 1, 48, 2, 5, 0>>,
    <<48, 5, 2, 1, 1, 2, 3>>,
    <<16, 6, 2, 1, 1, 2, 1, 2>> }

\* Unmarshal(data, &v) for a struct v of up to three int fields (plain or
\* tagged [0] or [1], optional or not), with or without asn1.Extensible as
\* its last field: Decoder.Next, the match of the SEQUENCE tag and
\* structDecoder.BerDecode.
DoStructDecode ==
  LET Ints == [tag : {2, 2 * (MaxTag + 1), 2 * (MaxTag + 1) + 1}, optional : BOOLEAN, ext : {FALSE}]
      Declared == {<<>>} \cup {<<a>> : a \in Ints} \cup {<<a, b>> : a, b \in Ints}
                    \cup {<<a, b, c>> : a, b, c \in Ints}
      Extensible == [tag |-> 0, optional |-> FALSE, ext |-> TRUE]
      Structs == Declared \cup {fs \o <<Extensible>> : fs \in Declared}
      none == [err |-> "nil", vals |-> <<>>, log |-> <<>>]
      Unmarshal(top, fields) ==
        IF top.err # "nil" THEN [none EXCEPT !.err = top.err] @@ [st |-> top.st]
        ELSE IF top.h.Tag # 16
          THEN [none EXCEPT !.err = "structural:tag does not match"] @@ [st |-> top.st]
        ELSE structBerDecode(top.st, fields)
      returned(fields, r) ==
        /\ ber' = r.st
        /\ blast' = [op |-> "struct", fields |-> fields, err |-> r.err, vals |-> r.vals,
                     log |-> r.log] IN
  /\ side = "codec"
  /\ blast.op = "none"
  /\ \E fields \in Structs : returned(fields, Unmarshal(berNext(ber, 1), fields))
  /\ UNCHANGED <<tape, d, env, last, ref, g, side, enc, w, elast, eg>>

\* A run of the codecs of package ber: one Marshal or Unmarshal of one value,
\* or a Marshal and the Unmarshal of its output.
InitCodec ==
  /\ side = "codec"
  /\ tape \in StructTapes
  /\ env = [pulled |-> 0, errs |-> 0, cons |-> 0, mode |-> "direct"]
  /\ w = [out |-> <<>>, errs |-> 0, mode |-> "direct", resets |-> 0]
  /\ InitDecoder
  /\ InitEncoder
  /\ ber = NewBerDecoder("seeker")
  /\ blast = NoBerCall

NextCodec ==
  \/ DoIntEncode
  \/ DoIntDecode
  \/ DoOidEncode
  \/ DoSequenceOf
  \/ DoStructDecode

SpecCodec == InitCodec /\ [][NextCodec]_vars

\* ------------------------------------------------------------------ C34

\* C34: decoding the encoding of a native integer v returns v without an
\* error.
C34_RoundTrip == (side = "codec" /\ blast.op = "intrt") => (blast.r.err = "nil" /\ blast.r.val = blast.v)

\* ------------------------------------------------------------------ C35

\* C35: encoding an OBJECT IDENTIFIER fails unless the value has at least two
\* arcs, the first arc is 0, 1 or 2, and the second arc is below 40 whenever
\* the first is below 2.
C35_ArcsValidated ==
  (side = "codec" /\ blast.op = "oidenc") =>
    (blast.r.err = "nil" <=>
       /\ Len(blast.val) >= 2
       /\ blast.val[1] \in {0, 1, 2}
       /\ (blast.val[1] < 2 => blast.val[2] < 40))

\* ------------------------------------------------------------------ C37

\* C37: the sequence that SequenceOf returns for a struct holds the values of
\* its exported fields that are not ignored, in declaration order, and for a
\* slice the values of its entries in index order.
C37_SequenceOf ==
  (side = "codec" /\ blast.op = "seqof" /\ blast.val.kind \in {"struct", "slice"}) =>
    LET kept == SelectSeq(blast.val.elems, LAMBDA f : f.exported /\ ~f.ignore) IN
    /\ blast.r.err = "nil"
    /\ blast.r.values = [i \in 1..Len(kept) |-> kept[i].val]

\* ------------------------------------------------------------------ C33

\* The entry j of the log of the last Unmarshal into a struct is a child
\* offered to an optional field whose tag differs from the child's.
MismatchedOptional(j) ==
  /\ blast.log[j].child # -1
  /\ ~blast.fields[blast.log[j].k].ext
  /\ blast.fields[blast.log[j].k].optional
  /\ blast.log[j].tag # blast.fields[blast.log[j].k].tag

\* C33: a child whose tag does not match the tag of an optional field leaves
\* the field at its zero value and the input where it was, and is offered to
\* the next field.
C33_OptionalSkipped ==
  (side = "codec" /\ blast.op = "struct") =>
    \A j \in 1..Len(blast.log) :
      MismatchedOptional(j) =>
        /\ blast.vals[blast.log[j].k] = 0
        /\ blast.log[j].post = blast.log[j].pre
        /\ blast.log[j].k < Len(blast.fields) =>
             /\ j < Len(blast.log)
             /\ blast.log[j + 1].k = blast.log[j].k + 1
             /\ blast.log[j + 1].child = blast.log[j].child
             /\ blast.log[j + 1].tag = blast.log[j].tag
             /\ blast.log[j + 1].pre = blast.log[j].pre

\* Two optional fields in a row are skipped and the field after them takes
\* the child.
C33_Witness ==
  /\ side = "codec" /\ blast.op = "struct" /\ blast.err = "nil"
  /\ Len(blast.log) >= 3
  /\ MismatchedOptional(1) /\ MismatchedOptional(2)
  /\ blast.log[3].tag = blast.fields[3].tag
  /\ blast.vals[3] # 0

\* ------------------------------------------------------------------ C32

\* The encoding of a SEQUENCE of the INTEGER values 1..n.
IntsTape(n) ==
  LET RECURSIVE ints(_)
      ints(i) == IF i > n THEN <<>> ELSE <<2, 1, i>> \o ints(i + 1) IN
  <<48, 3 * n>> \o ints(1)

\* The last Unmarshal was into a struct of int fields followed by
\* asn1.Extensible, from a SEQUENCE that holds one INTEGER for each int field
\* and at least min more.
ExtensibleWithExtra(min) ==
  /\ side = "codec" /\ blast.op = "struct"
  /\ Len(blast.fields) >= 1
  /\ blast.fields[Len(blast.fields)].ext
  /\ \A k \in 1..(Len(blast.fields) - 1) : blast.fields[k].tag = 2
  /\ \E n \in (Len(blast.fields) - 1 + min)..3 : tape = IntsTape(n)

\* C32: decoding into a struct whose last field is the extension marker
\* succeeds for any number n >= 0 of children after those of the declared
\* fields, and the declared fields hold their decoded values.
C32_Extensible ==
  ExtensibleWithExtra(0) =>
    /\ blast.err = "nil"
    /\ \A k \in 1..(Len(blast.fields) - 1) : blast.vals[k] = k

\* The same for n >= 1.
C32_AtLeastOneExtra ==
  ExtensibleWithExtra(1) =>
    /\ blast.err = "nil"
    /\ \A k \in 1..(Len(blast.fields) - 1) : blast.vals[k] = k

\* ------------------------------------------------------------------ C36

\* Every top-level data value of the input uses the definite-length form
\* (the inputs have one identifier byte and one length byte per header).
TopLevelDefinite ==
  LET RECURSIVE walk(_)
      walk(p) ==
        IF p + 2 > Len(tape) THEN TRUE
        ELSE IF tape[p + 2] >= 128 THEN FALSE
        ELSE walk(p + 2 + tape[p + 2]) IN
  walk(0)

\* The end of the data value that the last successful Decoder.Next returned,
\* or the bytes consumed if there is none.
CurrentEnd ==
  IF Len(ber.rs) >= 2 THEN ber.rs[2].cstart + ber.rs[2].H.Length ELSE ber.pos

\* C36: with a source that is no byte reader and top-level values of
\* definite length, the bytes taken from the source never extend beyond the
\* data value that Decoder.Next returned last, and once that value has been
\* consumed they are the encodings of the values decoded so far.
C36_NoReadAhead ==
  (side = "ber" /\ ber.kind = "reader" /\ TopLevelDefinite) =>
    /\ ber.pos <= ber.taken
    /\ ber.taken <= CurrentEnd
    /\ (blast.op = "close" /\ blast.lvl = 2 /\ blast.err = "nil") =>
         (ber.taken = CurrentEnd /\ ber.pos = CurrentEnd)

\* The second value of an input with more bytes has been consumed from a
\* source that returns one or two bytes per Read.
C36_Witness ==
  /\ side = "ber" /\ ber.kind = "reader" /\ TopLevelDefinite
  /\ ber.chunks = <<1, 2>>
  /\ blast.op = "close" /\ blast.lvl = 2 /\ blast.err = "nil"
  /\ ber.rs[2].hstart > 0
  /\ ber.taken = CurrentEnd
  /\ ber.taken < Len(tape)

====
